---- MODULE Spec2Model ----
(***************************************************************************)
(* Engagement tracking platform: the derivation, filter and record-store   *)
(* pipeline of src/utils.py and src/app.py as a state machine.             *)
(*                                                                         *)
(* A data frame is [cols |-> set of column names, rows |-> sequence of     *)
(* rows], each row a function from the frame's columns to cell values.     *)
(* A datetime cell is <<>> (NaT) or <<t>>, t an instant counted in clock   *)
(* ticks, TicksPerDay ticks to the calendar day, midnight at multiples.    *)
(***************************************************************************)
EXTENDS Integers, Sequences, FiniteSets, TLC

VARIABLES
    fdf,        \* apply_filters: the data frame handed in
    ffilters,   \* apply_filters: the filter tuple handed in
    fnow,       \* apply_filters: pd.Timestamp.now() / datetime.now()
    fresult,    \* apply_filters: the frame returned
    fpc,        \* apply_filters: "start", "utils" (utils.apply_filters ran), "app"
    dfile,      \* load_db: the engagements CSV it reads
    dnow,       \* load_db: pd.Timestamp.now()
    dview,      \* load_db: what the call gave, [raised, df]
    dpc,        \* load_db: "start", "loaded"
    devents,    \* what to_calendar_events returned for the view, once called
    csv,        \* the engagements CSV of the record store
    clock,      \* the instant of the store operations, in ticks
    uuids,      \* how many uuid4() identifiers have been handed out
    ret,        \* the last store operation: its name, input and result
    before,     \* the engagements CSV as it was before that operation
    rdata,      \* dashboard: the session's DATA frame
    rates,      \* dashboard: the metrics it computed
    rpc,        \* dashboard: "start", "warned" (empty data), "shown"
    dbCache,    \* st.cache_data of load_db: the file it memoised, if any
    ixCache,    \* st.cache_data of get_interactions: per id, the list memoised
    callers     \* two sessions inside log_interaction: position, frame loaded, payload

fvars == <<fdf, ffilters, fnow, fresult, fpc>>
dvars == <<dfile, dnow, dview, dpc, devents>>

svars == <<csv, clock, uuids, ret, before>>

rvars == <<rdata, rates, rpc>>

cvars == <<dbCache, ixCache>>

lvars == <<callers>>

vars == <<fvars, dvars, svars, rvars, cvars, lvars>>

-----------------------------------------------------------------------------
(* Bounds of the model *)

TicksPerDay == 2
MaxRows == 2
MaxDims == 2
MaxVary == 2
MaxRecords == 2
MaxLogs == 1

(* Program constants *)

URGENT_DAYS == 3
UPCOMING_WINDOW == 30

-----------------------------------------------------------------------------
(* Generic helpers over frames and series *)

NaT == <<>>

\* pd.DataFrame()
NoFrame == [cols |-> {}, rows |-> <<>>]

Range(s) == {s[i] : i \in DOMAIN s}

\* mutant: every selected row comes out twice
RECURSIVE SelectByMaskTwice(_, _)
SelectByMaskTwice(rows, mask) ==
    IF rows = <<>> THEN <<>>
    ELSE IF Head(mask)
         THEN <<Head(rows), Head(rows)>> \o SelectByMaskTwice(Tail(rows), Tail(mask))
         ELSE SelectByMaskTwice(Tail(rows), Tail(mask))

\* df[mask]
RECURSIVE SelectByMask(_, _)
SelectByMask(rows, mask) ==
    IF rows = <<>> THEN <<>>
    ELSE IF Head(mask)
         THEN <<Head(rows)>> \o SelectByMask(Tail(rows), Tail(mask))
         ELSE SelectByMask(Tail(rows), Tail(mask))

\* DataFrame.empty: no rows or no columns
Empty(d) == d.rows = <<>> \/ d.cols = {}

\* Series.isin(vals), one boolean per row
IsIn(d, col, vals) == [i \in DOMAIN d.rows |-> d.rows[i][col] \in Range(vals)]

\* mutant: the instant is taken as it is
NotNormalized(t) == t

\* pd.Timestamp.now().normalize(): midnight of the current day
Normalize(t) == (t \div TicksPerDay) * TicksPerDay

\* (series - t).dt.days: whole days, rounded down; NaT gives NaN (here <<>>)
DaysBetween(date, t) ==
    IF date = NaT THEN <<>> ELSE << (date[1] - t) \div TicksPerDay >>

\* Series.between(lo, hi), inclusive; NaN is not between anything
Between(days, lo, hi) == days # <<>> /\ lo <= days[1] /\ days[1] <= hi

-----------------------------------------------------------------------------
(* utils.apply_filters *)

\* the dict `mappings`, in insertion order: column name, filter-tuple field
UtilsMappings ==
    << <<"program", "progs">>, <<"gics_sector", "sector">>,
       <<"region", "region">>, <<"country", "country">>,
       <<"outcome", "outcome">>, <<"sentiment", "sentiment">>,
       <<"initial_status", "status">>, <<"objective", "objectives">> >>

\* mapping.get(theme, theme.lower().replace(' ', '_'))
ThemeColumn(theme) ==
    CASE theme = "Climate" -> "climate_change"
      [] theme = "Water" -> "water"
      [] theme = "Forests" -> "forests"
      [] theme = "Other" -> "other"
      [] theme = "Climate Change" -> "climate_change"
      [] OTHER -> theme

\* mutant: an empty selection list is applied like any other list
RECURSIVE CategoricalConditionsEmptyMatchesNothing(_, _, _)
CategoricalConditionsEmptyMatchesNothing(d, f, maps) ==
    IF maps = <<>> THEN <<>>
    ELSE LET col == Head(maps)[1]
             vals == f[Head(maps)[2]]
         IN  (IF col \in d.cols THEN << IsIn(d, col, vals) >> ELSE <<>>)
             \o CategoricalConditionsEmptyMatchesNothing(d, f, Tail(maps))

\* mutant: a selection on a column the frame lacks matches no row
RECURSIVE CategoricalConditionsMissingMatchesNothing(_, _, _)
CategoricalConditionsMissingMatchesNothing(d, f, maps) ==
    IF maps = <<>> THEN <<>>
    ELSE LET col == Head(maps)[1]
             vals == f[Head(maps)[2]]
         IN  (IF vals # <<>>
              THEN << IF col \in d.cols THEN IsIn(d, col, vals)
                      ELSE [i \in DOMAIN d.rows |-> FALSE] >>
              ELSE <<>>)
             \o CategoricalConditionsMissingMatchesNothing(d, f, Tail(maps))

RECURSIVE CategoricalConditions(_, _, _)
CategoricalConditions(d, f, maps) ==
    IF maps = <<>> THEN <<>>
    ELSE LET col == Head(maps)[1]
             vals == f[Head(maps)[2]]
         IN  (IF vals # <<>> /\ col \in d.cols
              THEN << IsIn(d, col, vals) >> ELSE <<>>)
             \o CategoricalConditions(d, f, Tail(maps))

ThemeConditions(d, f) ==
    IF f.theme # "" /\ ThemeColumn(f.theme) \in d.cols
    THEN << [i \in DOMAIN d.rows |-> d.rows[i][ThemeColumn(f.theme)] = "Y"] >>
    ELSE <<>>

\* mutant: every selected flag must be set (.all(axis=1))
EsgConditionsAll(d, f) ==
    LET present == {k \in DOMAIN f.esg : f.esg[k] \in d.cols}
    IN  IF f.esg # <<>> /\ present # {}
        THEN << [i \in DOMAIN d.rows |->
                    \A k \in present : d.rows[i][f.esg[k]]] >>
        ELSE <<>>

\* esg_conds = [df[flag] for flag in esg if flag in df.columns];
\* pd.concat(esg_conds, axis=1).any(axis=1)
EsgConditions(d, f) ==
    LET present == {k \in DOMAIN f.esg : f.esg[k] \in d.cols}
    IN  IF f.esg # <<>> /\ present # {}
        THEN << [i \in DOMAIN d.rows |->
                    \E k \in present : d.rows[i][f.esg[k]]] >>
        ELSE <<>>

UrgentConditions(d, f) ==
    IF f.urgent /\ "urgent" \in d.cols
    THEN << [i \in DOMAIN d.rows |-> d.rows[i]["urgent"] = TRUE] >>
    ELSE <<>>

UpcomingConditions(d, f, now) ==
    IF f.upcoming /\ "next_action_date" \in d.cols
    THEN << [i \in DOMAIN d.rows |->
               Between(DaysBetween(d.rows[i]["next_action_date"], Normalize(now)),
                       0, UPCOMING_WINDOW)] >>
    ELSE <<>>

RepeatConditions(d, f) ==
    IF f.repeat_values # <<>> /\ "repeat" \in d.cols
    THEN << IsIn(d, "repeat", f.repeat_values) >>
    ELSE <<>>

UtilsConditions(d, f, now) ==
    CategoricalConditions(d, f, UtilsMappings) \o ThemeConditions(d, f)
    \o EsgConditions(d, f) \o UrgentConditions(d, f)
    \o UpcomingConditions(d, f, now) \o RepeatConditions(d, f)

\* mutant: the conditions are combined with |= instead of &=
apply_filters_any(d, f, now) ==
    IF Empty(d) THEN d
    ELSE LET conditions == UtilsConditions(d, f, now)
         IN  IF conditions = <<>> THEN d
             ELSE LET mask == [i \in DOMAIN d.rows |->
                                 \E k \in DOMAIN conditions : conditions[k][i]]
                  IN  [cols |-> d.cols, rows |-> SelectByMask(d.rows, mask)]

\* mask = pd.Series(True); for cond in conditions: mask &= cond; df[mask]
apply_filters(d, f, now) ==
    IF Empty(d) THEN d
    ELSE LET conditions == UtilsConditions(d, f, now)
         IN  IF conditions = <<>> THEN d
             ELSE LET mask == [i \in DOMAIN d.rows |->
                                 \A k \in DOMAIN conditions : conditions[k][i]]
                  IN  [cols |-> d.cols, rows |-> SelectByMask(d.rows, mask)]

-----------------------------------------------------------------------------
(* app.apply_filters: the frame is narrowed one dimension after another *)

Keep(d, cond) == [cols |-> d.cols, rows |-> SelectByMask(d.rows, cond)]

\* the dict `filter_map`, in insertion order: column name, filter-tuple field
AppFilterMap ==
    << <<"program", "progs">>, <<"gics_sector", "sector">>,
       <<"region", "region">>, <<"country", "country">>,
       <<"milestone", "mile">>, <<"milestone_status", "status">>,
       <<"company_name", "companies">> >>

RECURSIVE AppCategorical(_, _, _)
AppCategorical(d, f, maps) ==
    IF maps = <<>> THEN d
    ELSE LET col == Head(maps)[1]
             vals == f[Head(maps)[2]]
             narrowed == IF vals # <<>> /\ col \in d.cols
                         THEN Keep(d, IsIn(d, col, vals)) ELSE d
         IN  AppCategorical(narrowed, f, Tail(maps))

AppThemes(d, f) ==
    IF f.themes # <<>> /\ "theme" \in d.cols
    THEN Keep(d, IsIn(d, "theme", f.themes)) ELSE d

\* if esg and all(col in filtered_df.columns for col in esg):
\*     filtered_df[filtered_df[esg].any(axis=1)]
AppEsg(d, f) ==
    IF f.esg # <<>> /\ Range(f.esg) \subseteq d.cols
    THEN Keep(d, [i \in DOMAIN d.rows |->
                     \E k \in DOMAIN f.esg : d.rows[i][f.esg[k]]])
    ELSE d

AppUrgent(d, f) ==
    IF f.urgent /\ "urgent" \in d.cols
    THEN Keep(d, [i \in DOMAIN d.rows |-> d.rows[i]["urgent"]]) ELSE d

\* today = pd.to_datetime(datetime.now().date())
AppUpcoming(d, f, now) ==
    IF f.upcoming /\ "next_action_date" \in d.cols
    THEN Keep(d, [i \in DOMAIN d.rows |->
                    Between(DaysBetween(d.rows[i]["next_action_date"],
                                        Normalize(now)),
                            0, UPCOMING_WINDOW)])
    ELSE d

AppObjectives(d, f) ==
    IF f.objectives # <<>> /\ "objective" \in d.cols
    THEN Keep(d, IsIn(d, "objective", f.objectives)) ELSE d

app_apply_filters(d, f, now) ==
    IF Empty(d) THEN d
    ELSE AppObjectives(
           AppUpcoming(
             AppUrgent(
               AppEsg(
                 AppThemes(AppCategorical(d, f, AppFilterMap), f), f), f),
             f, now), f)

-----------------------------------------------------------------------------
(* get_row_themes and the derived theme column of load_db *)

\* str(v).strip().upper() on the cell values the model uses
StripUpper(v) ==
    CASE v = "y" -> "Y"
      [] v = " Y" -> "Y"
      [] v = "n" -> "N"
      [] OTHER -> v

ThemeMapping ==
    << <<"Climate", "climate_change">>, <<"Water", "water">>,
       <<"Forests", "forests">>, <<"Other", "other">> >>

RECURSIVE JoinComma(_)
JoinComma(labels) ==
    IF labels = <<>> THEN ""
    ELSE IF Len(labels) = 1 THEN labels[1]
    ELSE labels[1] \o ", " \o JoinComma(Tail(labels))

RECURSIVE ThemeLabels(_, _)
ThemeLabels(row, maps) ==
    IF maps = <<>> THEN <<>>
    ELSE (IF Head(maps)[2] \in DOMAIN row
             /\ StripUpper(row[Head(maps)[2]]) = "Y"
          THEN << Head(maps)[1] >> ELSE <<>>)
         \o ThemeLabels(row, Tail(maps))

\* ', '.join(themes) or 'None'
get_row_themes(row) ==
    LET themes == ThemeLabels(row, ThemeMapping)
    IN  IF themes = <<>> THEN "None" ELSE JoinComma(themes)

\* df.apply(get_row_themes, axis=1).astype(str).replace('None', '')
ThemeCell(row) ==
    IF get_row_themes(row) = "None" THEN "" ELSE get_row_themes(row)

-----------------------------------------------------------------------------
(* load_db: reading the persisted CSV and deriving the view fields.         *)
(* A persisted file is [exists, cols, rows]. Its cells: a number or date is *)
(* <<>> (empty) or <<v>>; text is a string, "" the empty cell (NaN once     *)
(* read); the interactions cell is [kind, items], kind "list" for a JSON    *)
(* list of interactions, "nan" for an empty cell, "bad" for text that is    *)
(* not JSON, "nonlist" for JSON that is not a list.                         *)

\* str.lower() on the texts the model uses
Lower(v) ==
    CASE v = "Acme" -> "acme"
      [] v = "ACME" -> "acme"
      [] v = "Beta" -> "beta"
      [] v = "TRUE" -> "true"
      [] v = "True" -> "true"
      [] v = "FALSE" -> "false"
      [] v = "False" -> "false"
      [] v = "Y" -> "y"
      [] v = "Yes" -> "yes"
      [] v = "YES" -> "yes"
      [] v = "Engagement Complete" -> "engagement complete"
      [] v = "Response Received" -> "response received"
      [] v = "RESPONSE RECEIVED" -> "response received"
      [] v = "Not Started" -> "not started"
      [] v = "In Progress" -> "in progress"
      [] v = "Success" -> "success"
      [] v = "Cancelled" -> "cancelled"
      [] v = "CANCELLED" -> "cancelled"
      [] OTHER -> v

\* re.sub(r'[^a-z0-9]+', '_', c.lower()).strip('_') on the headers the model uses
NormalizeHeader(c) ==
    CASE c = "Company Name" -> "company_name"
      [] c = "Next Action Date" -> "next_action_date"
      [] c = "Outcome" -> "outcome"
      [] OTHER -> c

FixTargets ==
    {"company_name", "country", "gics_sector", "isin", "aqr_id", "program",
     "theme", "objective", "start_date", "target_date", "e", "s", "g",
     "climate_change", "water", "forests", "other", "created_date",
     "created_by", "last_interaction_date", "next_action_date",
     "initial_status", "outcome", "sentiment", "escalation_level",
     "outcome_status", "interactions", "outcome_colour", "repeat",
     "engagement_id"}

FixedName(c) == IF NormalizeHeader(c) \in FixTargets THEN NormalizeHeader(c) ELSE c

\* df.rename(columns=renames)
fix_columns(d) ==
    IF Empty(d) THEN d
    ELSE [cols |-> {FixedName(c) : c \in d.cols},
          rows |-> [i \in DOMAIN d.rows |->
                      [c \in {FixedName(x) : x \in d.cols} |->
                          d.rows[i][CHOOSE x \in d.cols : FixedName(x) = c]]]]

BoolCols == {"e", "s", "g", "repeat"}
ThemeCols == {"climate_change", "water", "forests", "other"}
DerivedCols == {"days_to_next_action", "is_complete", "on_time", "late", "overdue", "urgent"}

\* astype(str).str.lower().isin(['true', '1', 'yes', 'y'])
ParseBool(v) == Lower(v) \in {"true", "1", "yes", "y"}

EmptyList == [kind |-> "list", items |-> <<>>]

\* lines 46-71: the frame read from the file, before the derivation
ReadFrame(file) ==
    IF ~ file.exists THEN NoFrame
    ELSE LET d == fix_columns([cols |-> file.cols, rows |-> file.rows])
             cols == d.cols \cup {"interactions", "repeat", "theme"} \cup ThemeCols
             cell(r, c) ==
                CASE c = "theme" -> ""
                  [] c \in BoolCols -> IF c \in d.cols THEN ParseBool(r[c]) ELSE FALSE
                  [] c = "interactions" /\ c \notin d.cols -> EmptyList
                  [] c \in ThemeCols /\ c \notin d.cols -> "N"
                  [] OTHER -> r[c]
             typed(r) == [c \in cols |-> cell(r, c)]
         IN  [cols |-> cols,
              rows |-> [i \in DOMAIN d.rows |->
                          [typed(d.rows[i]) EXCEPT !.theme = ThemeCell(typed(d.rows[i]))]]]

CompleteOutcomes == {"engagement complete", "response received"}

\* mutant: a date equal to now counts as before it
DateBeforeOrAt(cell, now) == cell # NaT /\ cell[1] <= now

\* df.get(col, pd.NaT) for one row of a frame that has the column
DateBefore(cell, now) == cell # NaT /\ cell[1] < now
DateNotBefore(cell, now) == cell # NaT /\ cell[1] >= now

\* mutant: a missing day count compares as 0
UrgentOfNaNIsZero(days) == IF days = <<>> THEN 0 <= URGENT_DAYS ELSE days[1] <= URGENT_DAYS

\* df.get("days_to_next_action", 999) <= Config.URGENT_DAYS; NaN <= 3 is False
UrgentOf(days) == days # <<>> /\ days[1] <= URGENT_DAYS

\* line 79 raises when next_action_date is missing (pd.NaT - now has no .dt);
\* line 80 raises when the outcome column holds no text at all (.str on floats);
\* with outcome missing is_complete is all NaN and line 83 raises on ~NaN
DerivationRaises(d) ==
    \/ "next_action_date" \notin d.cols
    \/ "outcome" \notin d.cols
    \/ \A i \in DOMAIN d.rows : d.rows[i]["outcome"] = ""

\* lines 78-84 for one row
DeriveRow(r, cols, now) ==
    LET days == DaysBetween(r["next_action_date"], now)
        complete == Lower(r["outcome"]) \in CompleteOutcomes
        target == IF "target_date" \in cols THEN r["target_date"] ELSE NaT
        derived ==
            [days_to_next_action |-> days,
             is_complete |-> complete,
             on_time |-> complete /\ DateNotBefore(target, now),
             late |-> complete /\ DateBefore(target, now),
             overdue |-> DateBefore(r["next_action_date"], now) /\ ~ complete,
             urgent |-> UrgentOf(days)]
    IN  [c \in cols \cup DerivedCols |-> IF c \in DerivedCols THEN derived[c] ELSE r[c]]

WARNING_DAYS == 7

\* utils.py line 696: (next_dt - pd.Timestamp.now().normalize()).days
EventDays(date, now) == DaysBetween(date, Normalize(now))

\* line 698
EventClass(days) ==
    IF days <= URGENT_DAYS THEN "event-urgent"
    ELSE IF days <= WARNING_DAYS THEN "event-warning"
    ELSE "event-upcoming"

\* lines 693-705: one event, in row order, for each row that has a
\* next_action_date; a frame without the column has no events
RECURSIVE EventsOf(_, _, _)
EventsOf(d, now, i) ==
    IF i > Len(d.rows) THEN <<>>
    ELSE IF "next_action_date" \in d.cols /\ d.rows[i]["next_action_date"] # NaT
    THEN << [title |-> d.rows[i]["company_name"],
             start |-> d.rows[i]["next_action_date"],
             cls |-> EventClass(EventDays(d.rows[i]["next_action_date"], now)[1])] >>
         \o EventsOf(d, now, i + 1)
    ELSE EventsOf(d, now, i + 1)

to_calendar_events(d, now) == EventsOf(d, now, 1)

\* load_db() at the instant now: [raised, df]; the frame read is bound once
load_db(file, now) ==
    LET derive(d) ==
            IF Empty(d) THEN [raised |-> FALSE, df |-> d]
            ELSE IF DerivationRaises(d) THEN [raised |-> TRUE, df |-> NoFrame]
            ELSE [raised |-> FALSE,
                  df |-> [cols |-> d.cols \cup DerivedCols,
                          rows |-> [i \in DOMAIN d.rows |->
                                      DeriveRow(d.rows[i], d.cols, now)]]]
    IN  CHOOSE view \in {derive(d) : d \in {ReadFrame(file)}} : TRUE

-----------------------------------------------------------------------------
(* The frames and filter tuples apply_filters is run on *)

Override(r, patch) == [c \in DOMAIN r |-> IF c \in DOMAIN patch THEN patch[c] ELSE r[c]]

\* how many entries of a choice function pick an alternative (0 picks none)
Picked(ch) == Cardinality({i \in DOMAIN ch : ch[i] # 0})

RECURSIVE ApplyChoice(_, _, _, _)
ApplyChoice(base, groups, ch, i) ==
    IF i > Len(groups) THEN base
    ELSE ApplyChoice(IF ch[i] = 0 THEN base ELSE Override(base, groups[i][ch[i]]),
                     groups, ch, i + 1)

ChoicesOver(groups, most) ==
    {ch \in [DOMAIN groups -> 0..4] :
        /\ \A i \in DOMAIN groups : ch[i] <= Len(groups[i])
        /\ Picked(ch) <= most}

\* a row no filter dimension of the model lets through
BaseRow ==
    [program |-> "P3", outcome |-> "O2", milestone |-> "M2",
     climate_change |-> "N", water |-> "N", forests |-> "N", other |-> "N",
     theme |-> "", e |-> FALSE, s |-> FALSE, g |-> FALSE, urgent |-> FALSE,
     next_action_date |-> NaT, repeat |-> FALSE]

FilterCols == DOMAIN BaseRow

RowGroups ==
    << << [program |-> "P1"], [program |-> "P2"] >>,
       << [outcome |-> "O1"], [milestone |-> "M1"] >>,
       << [climate_change |-> "Y"], [water |-> "Y"],
          [climate_change |-> "Y", water |-> "Y"], [climate_change |-> "y"] >>,
       << [e |-> TRUE], [s |-> TRUE], [s |-> TRUE, g |-> TRUE] >>,
       << [urgent |-> TRUE] >>,
       << [next_action_date |-> <<0 - 1>>],
          [next_action_date |-> << (UPCOMING_WINDOW + 1) * TicksPerDay - 1 >>],
          [next_action_date |-> << (UPCOMING_WINDOW + 1) * TicksPerDay >>] >>,
       << [repeat |-> TRUE] >> >>

\* load_db derives the theme column from the theme flags
WithTheme(r) == [r EXCEPT !.theme = ThemeCell(r)]

FilterRows(most) ==
    {WithTheme(ApplyChoice(BaseRow, RowGroups, ch, 1)) : ch \in ChoicesOver(RowGroups, most)}

Restrict(r, cols) == [c \in cols |-> r[c]]

\* columns a frame may lack
DropSets ==
    {{}, {"program"}, {"e"}, {"e", "s", "g"}, {"urgent", "next_action_date"},
     {"repeat", "climate_change", "theme"}}

FrameOf(rows, drop) ==
    [cols |-> FilterCols \ drop,
     rows |-> [i \in DOMAIN rows |-> Restrict(rows[i], FilterCols \ drop)]]

RECURSIVE SeqsUpTo(_, _)
SeqsUpTo(S, n) ==
    IF n = 0 THEN {<<>>}
    ELSE LET shorter == SeqsUpTo(S, n - 1)
         IN  shorter \cup {Append(q, x) : q \in {t \in shorter : Len(t) = n - 1}, x \in S}

\* rows of the frames that hold several rows
SampleRows ==
    {WithTheme(Override(BaseRow, patch)) :
        patch \in {[program |-> "P3"],
                   [program |-> "P1", e |-> TRUE, climate_change |-> "Y"],
                   [s |-> TRUE, g |-> TRUE, urgent |-> TRUE,
                    next_action_date |-> <<TicksPerDay>>],
                   [program |-> "P2", outcome |-> "O1", milestone |-> "M1",
                    repeat |-> TRUE, water |-> "Y"]}}

Frames ==
    {FrameOf(<<r>>, {}) : r \in FilterRows(MaxVary)}
    \cup {FrameOf(rows, drop) : rows \in SeqsUpTo(SampleRows, MaxRows) \ {<<>>},
                                drop \in DropSets}
    \cup {FrameOf(<<>>, {})}

NoFilters ==
    [progs |-> <<>>, sector |-> <<>>, region |-> <<>>, country |-> <<>>,
     outcome |-> <<>>, sentiment |-> <<>>, status |-> <<>>, esg |-> <<>>,
     urgent |-> FALSE, upcoming |-> FALSE, theme |-> "", objectives |-> <<>>,
     repeat_values |-> <<>>, mile |-> <<>>, companies |-> <<>>, themes |-> <<>>]

FilterGroups ==
    << << [progs |-> <<"P1">>], [progs |-> <<"P1", "P2">>], [sector |-> <<"S1">>] >>,
       << [outcome |-> <<"O1">>], [mile |-> <<"M1">>] >>,
       << [theme |-> "Climate"], [theme |-> "Water"], [themes |-> <<"Climate">>] >>,
       << [esg |-> <<"e">>], [esg |-> <<"s", "g">>], [esg |-> <<"e", "s", "g">>] >>,
       << [urgent |-> TRUE] >>,
       << [upcoming |-> TRUE] >>,
       << [repeat_values |-> <<TRUE>>] >> >>

FilterSpecs ==
    {ApplyChoice(NoFilters, FilterGroups, ch, 1) : ch \in ChoicesOver(FilterGroups, MaxDims)}

-----------------------------------------------------------------------------
(* The filter stage as a machine: one frame, one filter tuple, one call *)

NoFile == [exists |-> FALSE, cols |-> {}, rows |-> <<>>]

NoView == [raised |-> FALSE, df |-> NoFrame]

FilterIdle ==
    /\ fdf = NoFrame /\ ffilters = NoFilters /\ fnow = 0
    /\ fresult = NoFrame /\ fpc = "idle"

NoEvents == [called |-> FALSE, events |-> <<>>]

DeriveIdle ==
    /\ dfile = NoFile /\ dnow = 0 /\ dview = NoView /\ dpc = "idle"
    /\ devents = NoEvents

NoData == [none |-> TRUE]

NoRet ==
    [op |-> "none", data |-> NoData, raised |-> FALSE, ok |-> FALSE, msg |-> "",
     id |-> <<>>, errors |-> {}]

StoreIdle ==
    /\ csv = NoFile /\ clock = 0 /\ uuids = 0 /\ ret = NoRet /\ before = NoFile

NoRates == [none |-> TRUE]

RatesIdle ==
    /\ rdata = NoFrame /\ rates = NoRates /\ rpc = "idle"

\* nothing memoised: no file for load_db, no list for any engagement
NoDbCache == [valid |-> FALSE, file |-> NoFile]

NoIxCache == [id \in {1, 2} |-> <<>>]

CacheIdle ==
    /\ dbCache = NoDbCache /\ ixCache = NoIxCache

Sessions == {1, 2}

NoCallers == [p \in Sessions |-> [pc |-> "idle", df |-> NoFile, data |-> NoData]]

RaceIdle == callers = NoCallers

FilterInit ==
    /\ DeriveIdle /\ StoreIdle /\ RatesIdle /\ CacheIdle /\ RaceIdle
    /\ fdf \in Frames
    /\ ffilters \in FilterSpecs
    /\ fnow \in {0, TicksPerDay - 1}
    /\ fresult = NoFrame
    /\ fpc = "start"

CallUtilsFilters ==
    /\ fpc = "start"
    /\ fresult' = apply_filters(fdf, ffilters, fnow)
    /\ fpc' = "utils"
    /\ UNCHANGED <<fdf, ffilters, fnow, dvars, svars, rvars, cvars, lvars>>

CallAppFilters ==
    /\ fpc = "start"
    /\ fresult' = app_apply_filters(fdf, ffilters, fnow)
    /\ fpc' = "app"
    /\ UNCHANGED <<fdf, ffilters, fnow, dvars, svars, rvars, cvars, lvars>>

FilterNext == CallUtilsFilters \/ CallAppFilters

SpecFilter == FilterInit /\ [][FilterNext]_vars

-----------------------------------------------------------------------------
(* The derivation stage as a machine: one CSV, one instant, one load_db *)

DeriveBaseRow ==
    [engagement_id |-> <<1>>, company_name |-> "Acme", e |-> "TRUE",
     target_date |-> NaT, next_action_date |-> NaT, outcome |-> "In Progress"]

DeriveCols == DOMAIN DeriveBaseRow

\* next_action_date: none, yesterday evening, this midnight, the last tick
\* of the day URGENT_DAYS ahead, the first tick of the day after it
DeriveDates ==
    {NaT, <<0 - 1>>, <<0>>, << (URGENT_DAYS + 1) * TicksPerDay - 1 >>,
     << (URGENT_DAYS + 1) * TicksPerDay >>}

DeriveRows ==
    {[DeriveBaseRow EXCEPT !.next_action_date = d, !.target_date = t, !.outcome = o] :
        d \in DeriveDates, t \in {NaT, <<0 - 1>>, <<1>>},
        o \in {"In Progress", "Engagement Complete", "Response Received",
                "RESPONSE RECEIVED", ""}}

DeriveSampleRows ==
    {[DeriveBaseRow EXCEPT !.next_action_date = d, !.outcome = o] :
        d \in {NaT, <<0>>}, o \in {"In Progress", "Engagement Complete", ""}}

\* columns the CSV may lack
DeriveDropSets == {{}, {"next_action_date"}, {"target_date"}, {"outcome"}, {"e"}}

FileOf(rows, cols) ==
    [exists |-> TRUE, cols |-> cols,
     rows |-> [i \in DOMAIN rows |-> Restrict(rows[i], cols)]]

DeriveFiles ==
    {FileOf(<<r>>, DeriveCols \ drop) : r \in DeriveRows, drop \in DeriveDropSets}
    \cup {FileOf(rows, DeriveCols \ drop) :
              rows \in SeqsUpTo(DeriveSampleRows, MaxRows) \ {<<>>},
              drop \in DeriveDropSets}
    \cup {NoFile}

DeriveInit ==
    /\ FilterIdle /\ StoreIdle /\ RatesIdle /\ CacheIdle /\ RaceIdle
    /\ dfile \in DeriveFiles
    /\ dnow \in {0, TicksPerDay - 1}
    /\ dview = NoView
    /\ dpc = "start"
    /\ devents = NoEvents

CallLoadDb ==
    /\ dpc = "start"
    /\ dview' = load_db(dfile, dnow)
    /\ dpc' = "loaded"
    /\ UNCHANGED <<dfile, dnow, devents, fvars, svars, rvars, cvars, lvars>>

\* the calendar page shows the view load_db returned, at the same instant
CallCalendar ==
    /\ dpc = "loaded" /\ ~ dview.raised /\ ~ devents.called
    /\ devents' = [called |-> TRUE, events |-> to_calendar_events(dview.df, dnow)]
    /\ UNCHANGED <<dfile, dnow, dview, dpc, fvars, svars, rvars, cvars, lvars>>

DeriveNext == CallLoadDb \/ CallCalendar

SpecDerive == DeriveInit /\ [][DeriveNext]_vars

-----------------------------------------------------------------------------
(* The record store: save_engagements_df, create_engagement,               *)
(* import_csv_data.  A frame about to be saved holds Python values: a cell  *)
(* of a boolean column is [t |-> "bool", b |-> ..], [t |-> "str", s |-> ..] *)
(* or [t |-> "na"] (pd.NA); the other cells are as in the file.             *)
(* Of the 29 columns create_engagement writes the model keeps those the     *)
(* pipeline reads or changes; isin, aqr_id, gics_sector, country, region,   *)
(* objective, start_date, created_date, created_by and sentiment are        *)
(* carried exactly like program and are left out.                           *)

RawCols ==
    {"engagement_id", "company_name", "program", "target_date", "e", "s", "g",
     "climate_change", "water", "forests", "other", "last_interaction_date",
     "next_action_date", "initial_status", "outcome", "escalation_level",
     "outcome_status", "interactions", "repeat"}

NumCols == {"engagement_id", "days_to_next_action"}
DateCols == {"target_date", "last_interaction_date", "next_action_date"}
FlagCols == BoolCols \cup (DerivedCols \ {"days_to_next_action"})

PyBool(b) == [t |-> "bool", b |-> b]
PyStr(v) == [t |-> "str", s |-> v]
PyNA == [t |-> "na"]

\* pd.NA / NaN in a column of the given name
NACell(c) ==
    CASE c \in FlagCols -> PyNA
      [] c \in NumCols \cup DateCols -> <<>>
      [] c = "interactions" -> [kind |-> "nan", items |-> <<>>]
      [] OTHER -> ""

\* str.upper() on the texts the model uses
Upper(v) ==
    CASE v = "True" -> "TRUE"
      [] v = "False" -> "FALSE"
      [] v = "yes" -> "YES"
      [] v = "Yes" -> "YES"
      [] v = "y" -> "Y"
      [] OTHER -> v

\* astype(str) of a cell of a boolean column
StrOfFlag(v) ==
    CASE v.t = "bool" -> IF v.b THEN "True" ELSE "False"
      [] v.t = "str" -> v.s
      [] OTHER -> "<NA>"

\* what to_csv writes for a cell of a boolean column: pd.NA is an empty cell
CsvOfFlag(v) == IF v.t = "na" THEN "" ELSE StrOfFlag(v)

\* the rows of load_db's frame as Python values
PyRow(r) == [c \in DOMAIN r |-> IF c \in FlagCols THEN PyBool(r[c]) ELSE r[c]]

\* mutant: a refused write leaves a file with the header and no rows
save_engagements_df_truncating(file, d, writable) ==
    [raised |-> ~ writable,
     file |-> [exists |-> TRUE, cols |-> d.cols \cup {"interactions"},
               rows |-> IF ~ writable THEN <<>>
                        ELSE [i \in DOMAIN d.rows |->
                               [c \in d.cols \cup {"interactions"} |->
                                  CASE c \notin d.cols -> EmptyList
                                    [] c \in BoolCols -> Upper(StrOfFlag(d.rows[i][c]))
                                    [] c \in FlagCols -> CsvOfFlag(d.rows[i][c])
                                    [] OTHER -> d.rows[i][c]]]]]

\* save_engagements_df(df): [raised, file]; writable is whether to_csv can
\* write the file; load_db.clear() follows a successful write
save_engagements_df(file, d, writable) ==
    IF ~ writable THEN [raised |-> TRUE, file |-> file]
    ELSE [raised |-> FALSE,
          file |-> [exists |-> TRUE, cols |-> d.cols \cup {"interactions"},
                    rows |-> [i \in DOMAIN d.rows |->
                               [c \in d.cols \cup {"interactions"} |->
                                  CASE c \notin d.cols -> EmptyList
                                    [] c \in BoolCols -> Upper(StrOfFlag(d.rows[i][c]))
                                    [] c \in FlagCols -> CsvOfFlag(d.rows[i][c])
                                    [] OTHER -> d.rows[i][c]]]]]

Has(data, key) == key \in DOMAIN data
Get(data, key, default) == IF key \in DOMAIN data THEN data[key] ELSE default

SetMax(S) == CHOOSE m \in S : \A x \in S : x <= m

\* df.get('company_name').str.lower().tolist(): NaN cells match no name
LowerNames(d) ==
    IF "company_name" \in d.cols
    THEN {Lower(d.rows[i]["company_name"]) :
             i \in {k \in DOMAIN d.rows : d.rows[k]["company_name"] # ""}}
    ELSE {}

\* mutant: the names are compared as stored
IsDuplicateExact(d, data) ==
    /\ ~ Empty(d)
    /\ "company_name" \in d.cols
    /\ Get(data, "company_name", "") \in
          {d.rows[i]["company_name"] : i \in DOMAIN d.rows} \ {""}

\* line 152
IsDuplicate(d, data) ==
    ~ Empty(d) /\ Lower(Get(data, "company_name", "")) \in LowerNames(d)

\* line 155: max() skips NaN; the max of nothing but NaN is NaN, and NaN + 1 is NaN
NextId(d) ==
    IF ~ Empty(d) /\ "engagement_id" \in d.cols
    THEN LET ids == {d.rows[i]["engagement_id"][1] :
                        i \in {k \in DOMAIN d.rows : d.rows[k]["engagement_id"] # <<>>}}
         IN  IF ids = {} THEN <<>> ELSE << SetMax(ids) + 1 >>
    ELSE <<1>>

\* lines 159-189
NewRecord(data, next_id) ==
    [c \in RawCols |->
        CASE c = "engagement_id" -> next_id
          [] c = "company_name" -> Get(data, "company_name", "")
          [] c = "program" -> Get(data, "program", "")
          [] c = "target_date" -> Get(data, "target_date", NaT)
          [] c \in {"e", "s", "g", "repeat"} -> PyBool(Get(data, c, FALSE))
          [] c \in ThemeCols -> "N"
          [] c = "last_interaction_date" -> NaT
          [] c = "next_action_date" -> Get(data, "start_date", NaT)
          [] c = "initial_status" -> Get(data, "initial_status", "Not Started")
          [] c = "outcome" -> Get(data, "initial_status", "Not Started")
          [] c = "escalation_level" -> "None Required"
          [] c = "outcome_status" -> "N/A"
          [] OTHER -> EmptyList]

\* lines 191-201: both frames get the other's columns as NA, then concat
ConcatNew(d, rec) ==
    LET cols == IF Empty(d) THEN RawCols ELSE d.cols \cup RawCols
        old(r) == [c \in cols |-> IF c \in DOMAIN r THEN PyRow(r)[c] ELSE NACell(c)]
        new == [c \in cols |-> IF c \in RawCols THEN rec[c] ELSE NACell(c)]
    IN  [cols |-> cols,
         rows |-> [i \in DOMAIN d.rows |-> old(d.rows[i])] \o <<new>>]

\* what an operation gives back: whether it raised, its (success, message)
\* pair, the file afterwards, the identifier it assigned or was given
Outcome(raised, ok, msg, file, id) ==
    [raised |-> raised, ok |-> ok, msg |-> msg, file |-> file, id |-> id]

\* create_engagement(data); df is what load_db() returned
create_engagement(file, data, now, writable) ==
    LET create(df) ==
            IF IsDuplicate(df, data)
            THEN Outcome(FALSE, FALSE, "already exists", file, <<>>)
            ELSE LET next_id == NextId(df)
                     saved == save_engagements_df(file,
                                 ConcatNew(df, NewRecord(data, next_id)), writable)
                 IN  IF saved.raised
                     THEN Outcome(FALSE, FALSE, "cannot save", saved.file, next_id)
                     ELSE Outcome(FALSE, TRUE, "created", saved.file, next_id)
        run(view) ==
            IF view.raised THEN Outcome(TRUE, FALSE, "", file, <<>>) ELSE create(view.df)
    IN  CHOOSE out \in {run(view) : view \in {load_db(file, now)}} : TRUE

\* lines 115-128 on the uploaded frame
PrepareImport(new_df) ==
    LET cols == new_df.cols \cup {"engagement_id", "interactions"}
    IN  [cols |-> cols,
         rows |-> [i \in DOMAIN new_df.rows |->
                    [c \in cols |->
                       CASE c = "engagement_id" /\ c \notin new_df.cols -> <<i>>
                         [] c = "interactions" /\ c \notin new_df.cols -> EmptyList
                         [] c \in BoolCols -> PyStr(Upper(StrOfFlag(new_df.rows[i][c])))
                         [] OTHER -> new_df.rows[i][c]]]]

\* lines 111-113: the archive file the call writes, current_df as load_db
\* returned it; none when current_df is empty
ArchiveOf(view) == IF Empty(view.df) THEN <<>> ELSE <<view.df>>

\* import_csv_data(new_df): any exception, load_db's included, is reported
\* as failure; archive is the archive file written, if any
import_csv_data(file, new_df, now, writable) ==
    LET run(view) ==
            IF view.raised
            THEN Outcome(FALSE, FALSE, "import failed", file, <<>>) @@ [archive |-> <<>>]
            ELSE LET saved == save_engagements_df(file, PrepareImport(new_df), writable)
                 IN  IF saved.raised
                     THEN Outcome(FALSE, FALSE, "import failed", saved.file, <<>>)
                              @@ [archive |-> ArchiveOf(view)]
                     ELSE Outcome(FALSE, TRUE, "imported", saved.file, <<>>)
                              @@ [archive |-> ArchiveOf(view)]
    IN  CHOOSE out \in {run(view) : view \in {load_db(file, now)}} : TRUE


-----------------------------------------------------------------------------
(* log_interaction and the form handler that calls it.  A payload is a     *)
(* function from the keys it supplies to their values: an identifier is a  *)
(* number, a date an instant, the rest text.  An interaction is a record   *)
(* of the seven fields json.dumps writes.                                  *)

\* str.strip() on the texts the model uses
Strip(v) ==
    CASE v = " met " -> "met"
      [] v = "  " -> ""
      [] OTHER -> v

\* strftime('%Y-%m-%d'): the calendar day of the instant, its time of day dropped
FormatDay(t) == Normalize(t)

DateKeys == {"last_interaction_date", "next_action_date"}
TextKeys ==
    {"interaction_type", "interaction_summary", "outcome_status", "outcome",
     "escalation_level", "company_name", "program", "initial_status"}

\* value is not None and value != ""
NonEmpty(data, key) == key \in TextKeys => data[key] # ""

\* lines 219-224 on the row found
UpdateRow(r, cols, data) ==
    [c \in cols |->
        IF c \in DOMAIN data /\ NonEmpty(data, c)
        THEN IF c \in NumCols \cup DateKeys THEN << data[c] >> ELSE data[c]
        ELSE r[c]]

\* line 231: data.get("date") or data.get("last_interaction_date")
InteractionDate(data) ==
    IF Has(data, "date") THEN << data["date"] >>
    ELSE IF Has(data, "last_interaction_date") THEN << data["last_interaction_date"] >>
    ELSE <<>>

\* lines 232-240
NewInteraction(data, uuid, now) ==
    [interaction_id |-> uuid,
     interaction_type |-> Get(data, "interaction_type", "N/A"),
     interaction_summary |-> Strip(Get(data, "interaction_summary", "No summary provided")),
     interaction_date |-> FormatDay(InteractionDate(data)[1]),
     outcome_status |-> Get(data, "outcome_status", "N/A"),
     logged_by |-> "System",
     logged_date |-> now]

\* mutant: the stored interactions are not read
ParseInteractionsAfresh(cell) == <<>>

\* lines 226-229: an empty cell or text that is not JSON gives []
ParseInteractions(cell) == IF cell.kind = "list" THEN cell.items ELSE <<>>

\* mutant: the new interaction is put in front
AppendInteractionFirst(items, entry) == <<entry>> \o items

\* interactions.append(...)
AppendInteraction(items, entry) == Append(items, entry)

SetMin(S) == CHOOSE m \in S : \A x \in S : m <= x

\* lines 223, 242: df.at[idx, key] = value writes row idx and no other
WriteAt(rows, idx, logged) ==
    [i \in DOMAIN rows |-> IF i = idx THEN logged ELSE PyRow(rows[i])]

\* log_interaction(data): uuid is the value uuid4() gives this call; df is
\* what load_db() returned
log_interaction(file, data, now, uuid, writable) ==
    LET log(df, idx) ==
            LET row == UpdateRow(PyRow(df.rows[idx]), df.cols, data)
                cell == row["interactions"]
                items == AppendInteraction(ParseInteractions(cell),
                                           NewInteraction(data, uuid, now))
                logged == [row EXCEPT !.interactions = [kind |-> "list", items |-> items]]
                saved == save_engagements_df(file,
                            [cols |-> df.cols, rows |-> WriteAt(df.rows, idx, logged)],
                            writable)
            IN  IF cell.kind = "nonlist" \/ InteractionDate(data) = <<>>
                THEN Outcome(TRUE, FALSE, "", file, <<>>)
                ELSE IF saved.raised
                THEN Outcome(FALSE, FALSE, "cannot save", saved.file, <<>>)
                ELSE Outcome(FALSE, TRUE, "logged", saved.file, <<>>)
        find(df) ==
            LET found == {i \in DOMAIN df.rows :
                             df.rows[i]["engagement_id"] = << data["engagement_id"] >>}
            IN  IF found = {}
                THEN Outcome(FALSE, FALSE, "not found", file, <<>>)
                ELSE log(df, SetMin(found))
        run(view) ==
            IF view.raised \/ "engagement_id" \notin view.df.cols
            THEN Outcome(TRUE, FALSE, "", file, <<>>)
            ELSE find(view.df)
    IN  CHOOSE out \in {run(view) : view \in {load_db(file, now)}} : TRUE

FOLLOW_UP_DAYS == 14
TARGET_DAYS == 90

\* mutant: the ESG selection is not checked
CreateFormErrorsNoEsg(form) ==
    {e \in {"company_name", "gics_sector", "program", "country", "region"} :
        IF e = "company_name" THEN Strip(form.company_name) = "" ELSE form[e] = ""}

\* app.py lines 322-335: the fields the validation finds wanting
CreateFormErrors(form) ==
    {e \in {"company_name", "gics_sector", "program", "country", "region", "esg"} :
        CASE e = "company_name" -> Strip(form.company_name) = ""
          [] e = "esg" -> form.esg = {}
          [] OTHER -> form[e] = ""}

\* app.py lines 345-361
CreateFormPayload(form, now) ==
    [company_name |-> Strip(form.company_name),
     gics_sector |-> form.gics_sector,
     region |-> form.region,
     program |-> form.program,
     country |-> form.country,
     start_date |-> << Normalize(now) >>,
     target_date |-> << Normalize(now) + TARGET_DAYS * TicksPerDay >>,
     e |-> "e" \in form.esg,
     s |-> "s" \in form.esg,
     g |-> "g" \in form.esg]

\* app.py lines 341-343: the names of the session's FULL_DATA, taken as
\* refreshed from the store
SessionNames(file, now) ==
    LET names(view) == IF view.raised THEN {} ELSE LowerNames(view.df)
    IN  UNION {names(view) : view \in {load_db(file, now)}}

\* mutant: the summary is not checked
FormErrorsNoSummary(form) ==
    {e \in {"type", "outcome"} :
        \/ e = "type" /\ form.interaction_type = ""
        \/ e = "outcome" /\ form.outcome_status = ""}

\* app.py lines 434-441
FormErrors(form) ==
    {e \in {"type", "summary", "outcome"} :
        \/ e = "type" /\ form.interaction_type = ""
        \/ e = "summary" /\ Strip(form.interaction_summary) = ""
        \/ e = "outcome" /\ form.outcome_status = ""}

\* app.py lines 448-458
FormPayload(form, now) ==
    [engagement_id |-> form.engagement_id,
     last_interaction_date |-> form.interaction_date,
     next_action_date |-> Normalize(now) + FOLLOW_UP_DAYS * TicksPerDay,
     interaction_summary |-> Strip(form.interaction_summary),
     interaction_type |-> form.interaction_type,
     outcome_status |-> form.outcome_status,
     escalation_level |-> form.escalation_level]

-----------------------------------------------------------------------------
(* The record store as a machine: the CSV starts absent and is changed by  *)
(* create_engagement, log_interaction (called directly or from the form)   *)
(* and import_csv_data; each write may find the file locked.               *)

RetOf(op, data, out, errors) ==
    [op |-> op, data |-> data, raised |-> out.raised, ok |-> out.ok, msg |-> out.msg,
     id |-> out.id, errors |-> errors]

\* the operations are explored at one instant, midnight or late in the day;
\* what the passing of time does to the derived fields is SpecDerive's matter
StoreInit ==
    /\ FilterIdle /\ DeriveIdle /\ RatesIdle /\ CacheIdle /\ RaceIdle
    /\ csv = NoFile /\ before = NoFile
    /\ clock \in {0, TicksPerDay - 1}
    /\ uuids = 0
    /\ ret = NoRet

CreatePayloads ==
    {[company_name |-> n, e |-> TRUE, start_date |-> <<0>>] : n \in {"Acme", "ACME"}}

CreateEngagement ==
    /\ Len(csv.rows) < MaxRecords
    /\ \E data \in CreatePayloads, writable \in BOOLEAN :
          \E out \in {create_engagement(csv, data, clock, writable)} :
              /\ csv' = out.file
              /\ ret' = RetOf("create", data, out, {})
    /\ before' = csv
    /\ UNCHANGED <<clock, uuids, fvars, dvars, rvars, cvars, lvars>>

LogIds == {1, 2}

\* payloads of direct calls: a plain one; one with a padded summary, a date
\* with a time of day and a new outcome; one without type, outcome or a
\* summary worth the name; one without any date
LogPayloads ==
    UNION {
      { [engagement_id |-> id, interaction_type |-> "Call",
         interaction_summary |-> "met", outcome_status |-> "Positive",
         last_interaction_date |-> 0],
        [engagement_id |-> id, interaction_type |-> "Call",
         interaction_summary |-> " met ", outcome_status |-> "Positive",
         date |-> TicksPerDay + 1, last_interaction_date |-> 0,
         outcome |-> "Engagement Complete", escalation_level |-> ""],
        [engagement_id |-> id, interaction_summary |-> "  ",
         last_interaction_date |-> 0],
        [engagement_id |-> id, interaction_type |-> "Call",
         interaction_summary |-> "met", outcome_status |-> "Positive"] }
      : id \in LogIds }

ValidLogPayload ==
    [engagement_id |-> 1, interaction_type |-> "Call",
     interaction_summary |-> "met", outcome_status |-> "Positive",
     last_interaction_date |-> 0]

\* the calls made: each payload for engagement 1 and the plain one for
\* engagement 2 against a writable store, the dated payload against a store
\* that cannot be written as well
LogCalls ==
    {call \in LogPayloads \X BOOLEAN :
        /\ call[2] \/ "date" \in DOMAIN call[1]
        /\ call[1].engagement_id = 1 \/ DOMAIN call[1] = DOMAIN ValidLogPayload}

LogInteraction ==
    /\ uuids < MaxLogs
    /\ \E call \in LogCalls :
          \E out \in {log_interaction(csv, call[1], clock, uuids + 1, call[2])} :
              /\ csv' = out.file
              /\ ret' = RetOf("log", call[1], out, {})
    /\ uuids' = uuids + 1
    /\ before' = csv
    /\ UNCHANGED <<clock, fvars, dvars, rvars, cvars, lvars>>

\* the form as submitted: the engagement picked and the widgets' values
ValidLogForm ==
    [engagement_id |-> 1, interaction_type |-> "Call",
     interaction_summary |-> " met ", outcome_status |-> "Positive",
     escalation_level |-> "High", interaction_date |-> 0]

LogForms ==
    {ValidLogForm}
    \cup {[ValidLogForm EXCEPT ![k] = ""] :
             k \in {"interaction_type", "interaction_summary", "outcome_status"}}
    \cup {[ValidLogForm EXCEPT !.interaction_summary = "  "]}
    \cup {[ValidLogForm EXCEPT !.interaction_type = "", !.interaction_summary = "",
                               !.outcome_status = ""]}

\* app.py lines 432-467
SubmitLogForm ==
    /\ uuids < MaxLogs
    /\ \E form \in LogForms :
          IF FormErrors(form) # {}
          THEN /\ csv' = csv
               /\ ret' = RetOf("log_form", form,
                               Outcome(FALSE, FALSE, "validation failed", csv, <<>>),
                               FormErrors(form))
               /\ uuids' = uuids
          ELSE \E writable \in BOOLEAN :
               \E out \in {log_interaction(csv, FormPayload(form, clock), clock,
                                             uuids + 1, writable)} :
                   /\ csv' = out.file
                   /\ ret' = RetOf("log_form", form, out, {})
                   /\ uuids' = uuids + 1
    /\ before' = csv
    /\ UNCHANGED <<clock, fvars, dvars, rvars, cvars, lvars>>

ValidCreateForm ==
    [company_name |-> "Beta", gics_sector |-> "Energy", program |-> "P1",
     country |-> "UK", region |-> "Europe", esg |-> {"e"}]

\* the form as submitted: valid, one required field left blank, no ESG
\* flag, or a name that is stored already
CreateForms ==
    {ValidCreateForm}
    \cup {[ValidCreateForm EXCEPT ![k] = ""] :
             k \in {"gics_sector", "program", "country", "region"}}
    \cup {[ValidCreateForm EXCEPT !.company_name = n] : n \in {"  ", "ACME"}}
    \cup {[ValidCreateForm EXCEPT !.esg = {}]}

\* app.py lines 320-374
SubmitCreateForm ==
    /\ Len(csv.rows) < MaxRecords
    /\ \E form \in CreateForms :
          IF CreateFormErrors(form) # {}
          THEN /\ csv' = csv
               /\ ret' = RetOf("create_form", form,
                               Outcome(FALSE, FALSE, "validation failed", csv, <<>>),
                               CreateFormErrors(form))
          ELSE IF Lower(form.company_name) \in SessionNames(csv, clock)
          THEN /\ csv' = csv
               /\ ret' = RetOf("create_form", form,
                               Outcome(FALSE, FALSE, "already exists", csv, <<>>), {})
          ELSE \E writable \in BOOLEAN :
               \E out \in {create_engagement(csv, CreateFormPayload(form, clock),
                                              clock, writable)} :
                   /\ csv' = out.file
                   /\ ret' = RetOf("create_form", form, out, {})
    /\ before' = csv
    /\ UNCHANGED <<clock, uuids, fvars, dvars, rvars, cvars, lvars>>

ImportRow(n, id) ==
    [engagement_id |-> id, company_name |-> n, program |-> "P1", e |-> PyBool(TRUE),
     next_action_date |-> <<0>>, outcome |-> "In Progress",
     interactions |-> EmptyList]

ImportCols == DOMAIN ImportRow("", <<>>)

ImportFrame(rows, cols) ==
    [cols |-> cols, rows |-> [i \in DOMAIN rows |-> Restrict(rows[i], cols)]]

\* a stored interaction of an uploaded record
OldInteraction ==
    [interaction_id |-> 0, interaction_type |-> "Email", interaction_summary |-> "sent",
     interaction_date |-> 0, outcome_status |-> "Neutral", logged_by |-> "System",
     logged_date |-> 0]

\* the uploaded frames: two names equal but for case, no identifiers and the
\* flag e as text, 'True' and 'Yes'; a repeated identifier and an interaction
\* already logged; no next_action_date column and no identifier in the one row
ImportFrames ==
    { ImportFrame(<<[ImportRow("Acme", <<>>) EXCEPT !.e = PyStr("True")],
                    [ImportRow("acme", <<>>) EXCEPT !.e = PyStr("Yes")]>>,
                  ImportCols \ {"engagement_id", "interactions"}),
      ImportFrame(<<[ImportRow("Acme", <<1>>) EXCEPT !.interactions =
                        [kind |-> "list", items |-> <<OldInteraction>>]],
                    ImportRow("Beta", <<1>>)>>, ImportCols),
      ImportFrame(<<ImportRow("Beta", <<>>)>>, ImportCols \ {"next_action_date"}) }

\* the uploads made: each frame to a writable store, the frame without
\* identifiers to a store that cannot be written as well
ImportCalls ==
    {call \in ImportFrames \X BOOLEAN :
        call[2] \/ "engagement_id" \notin call[1].cols}

ImportCsv ==
    /\ \E call \in ImportCalls :
          \E out \in {import_csv_data(csv, call[1], clock, call[2])} :
              /\ csv' = out.file
              /\ ret' = RetOf("import", call[1], out, {}) @@ [archive |-> out.archive]
    /\ before' = csv
    /\ UNCHANGED <<clock, uuids, fvars, dvars, rvars, cvars, lvars>>

Next ==
    \/ CreateEngagement \/ SubmitCreateForm
    \/ LogInteraction \/ SubmitLogForm
    \/ ImportCsv

Spec == StoreInit /\ [][Next]_vars

-----------------------------------------------------------------------------
(* app.dashboard, app.py lines 132-167: the success and the fail rate.       *)
(* Python computes count / total * 100 in binary floating point and rounds   *)
(* the result half to even; for the totals drawn here the quotients that lie *)
(* half way between two integers are exact in floating point, so the         *)
(* rounding is modelled on the exact quotient.                               *)

MaxTotal == 8

\* mutant: the quotient is cut off instead of rounded
RoundDown(num, den) == num \div den

\* round(num / den) for num >= 0, den > 0: the nearest integer, the even one
\* of the two when num / den lies half way between them
round(num, den) ==
    LET q == num \div den
        r == num % den
    IN  IF 2 * r < den THEN q
        ELSE IF 2 * r > den THEN q + 1
        ELSE IF q % 2 = 0 THEN q ELSE q + 1

success_milestones == <<"Success", "Full Disclosure", "Partial Disclosure", "Verified">>

\* Series.sum() of a boolean series
SumOf(mask) == Cardinality({i \in DOMAIN mask : mask[i]})

\* line 157
success_count(data) ==
    IF "milestone" \in data.cols
    THEN SumOf(IsIn(data, "milestone", success_milestones))
    ELSE 0

\* line 164: NaN stays NaN under str.lower() and equals nothing
failed_count(data) ==
    IF "milestone" \in data.cols
    THEN SumOf([i \in DOMAIN data.rows |->
                   Lower(data.rows[i].milestone) = "cancelled"])
    ELSE 0

\* line 158
success_rate(data) ==
    LET total == Len(data.rows)
    IN  IF total > 0 THEN round(success_count(data) * 100, total) ELSE 0

\* line 167
fail_rate(data) ==
    LET total == Len(data.rows)
    IN  IF total > 0 THEN round(failed_count(data) * 100, total) ELSE 0

\* the milestone cells drawn: of the success vocabulary, the same word in
\* lower case, cancelled in two spellings, another stage, an empty cell
Milestones == <<"Success", "Verified", "success", "Cancelled", "CANCELLED",
                "In Progress", "<NA>">>

Repeat(row, k) == [i \in 1..k |-> row]

\* the row sequences of at most n rows, the milestones in the order given
RECURSIVE Blocks(_, _)
Blocks(vals, n) ==
    IF vals = <<>> THEN {<<>>}
    ELSE UNION {{Repeat([program |-> "P1", milestone |-> Head(vals)], k) \o rest :
                    rest \in Blocks(Tail(vals), n - k)} : k \in 0..n}

\* the session's DATA: frames with a milestone column, frames without
DashboardFrames ==
    {[cols |-> {"program", "milestone"}, rows |-> rows] :
        rows \in Blocks(Milestones, MaxTotal)}
    \cup {[cols |-> {"program"}, rows |-> Repeat([program |-> "P1"], k)] :
              k \in 0..MaxTotal}

RatesInit ==
    /\ FilterIdle /\ DeriveIdle /\ StoreIdle /\ CacheIdle /\ RaceIdle
    /\ rdata \in DashboardFrames
    /\ rates = NoRates
    /\ rpc = "start"

\* lines 133-167: nothing is computed for an empty frame
dashboard ==
    /\ rpc = "start"
    /\ IF Empty(rdata)
       THEN /\ rpc' = "warned"
            /\ rates' = NoRates
       ELSE /\ rpc' = "shown"
            /\ rates' = [total |-> Len(rdata.rows),
                         success_count |-> success_count(rdata),
                         success_rate |-> success_rate(rdata),
                         failed_count |-> failed_count(rdata),
                         fail_rate |-> fail_rate(rdata)]
    /\ UNCHANGED <<rdata, fvars, dvars, svars, cvars, lvars>>

RatesNext == dashboard

SpecRates == RatesInit /\ [][RatesNext]_vars

-----------------------------------------------------------------------------
(* The thematic distribution: the gauges of app.dashboard, app.py lines      *)
(* 227-248, and utils.render_gauges, utils.py lines 616-642. The frames      *)
(* carry the theme flags either in the columns load_db gives them            *)
(* (climate_change, water, forests, other; utils.py lines 63-66) or in the   *)
(* columns the dashboard reads (app.py line 231).                            *)

MaxThemed == 4

\* the theme flags of the rows drawn: none, one theme, two themes
ThemeRows ==
    << [climate_change |-> "N", water |-> "N", forests |-> "N", other |-> "N"],
       [climate_change |-> "Y", water |-> "N", forests |-> "N", other |-> "N"],
       [climate_change |-> "N", water |-> "Y", forests |-> "N", other |-> "N"],
       [climate_change |-> "Y", water |-> "Y", forests |-> "N", other |-> "N"],
       [climate_change |-> "N", water |-> "N", forests |-> "Y", other |-> "Y"] >>

\* the row sequences of at most n rows, the rows in the order given
RECURSIVE RowBlocks(_, _)
RowBlocks(rows, n) ==
    IF rows = <<>> THEN {<<>>}
    ELSE UNION {{Repeat(Head(rows), k) \o rest : rest \in RowBlocks(Tail(rows), n - k)} :
                   k \in 0..n}

\* utils.py line 63
theme_cols == <<"climate_change", "water", "forests", "other">>

\* app.py line 231
theme_columns == <<"Climate Change", "Water", "Forests", "Other">>

\* the frame with its theme columns named by names
NamedBy(names, rows) ==
    [cols |-> Range(names),
     rows |-> [i \in DOMAIN rows |->
                  [c \in Range(names) |->
                      rows[i][theme_cols[CHOOSE k \in DOMAIN names : names[k] = c]]]]]

ThemeFrames ==
    {NamedBy(names, rows) : names \in {theme_cols, theme_columns},
                            rows \in RowBlocks(ThemeRows, MaxThemed)}

\* (data[col] == "Y").sum() if col in data.columns else 0
CountY(data, col) ==
    IF col \in data.cols
    THEN SumOf([i \in DOMAIN data.rows |-> data.rows[i][col] = "Y"])
    ELSE 0

RECURSIVE SumSeq(_)
SumSeq(q) == IF q = <<>> THEN 0 ELSE Head(q) + SumSeq(Tail(q))

\* app.py lines 230-248, FULL_DATA not empty: per theme the count and the
\* percentage shown; no gauges for an empty frame (line 135)
esg_data(data) ==
    LET total_theme_ys ==
            SumSeq([k \in DOMAIN theme_columns |-> CountY(data, theme_columns[k])])
    IN  [k \in DOMAIN theme_columns |->
            LET count == CountY(data, theme_columns[k])
            IN  [theme |-> theme_columns[k],
                 count |-> count,
                 pct |-> IF theme_columns[k] \in data.cols /\ total_theme_ys > 0
                         THEN round(count * 100, total_theme_ys) ELSE 0]]

\* the themes render_gauges is called for
GaugeThemes == <<"Climate", "Water", "Forests", "Other">>

\* utils.py lines 619, 623: mapping.get(theme, ...)
GaugeColumn(theme) ==
    CASE theme = "Climate" -> "climate_change"
      [] theme = "Water" -> "water"
      [] theme = "Forests" -> "forests"
      [] theme = "Other" -> "other"

\* utils.py lines 621-640: per theme the count and the percentage of the
\* gauge; no gauge is drawn when the counts sum to 0 (line 642)
render_gauges(data, themes) ==
    LET total == SumSeq([k \in DOMAIN themes |-> CountY(data, GaugeColumn(themes[k]))])
    IN  IF total > 0
        THEN [k \in DOMAIN themes |->
                 LET count == CountY(data, GaugeColumn(themes[k]))
                 IN  [theme |-> themes[k], count |-> count,
                      pct |-> round(count * 100, total)]]
        ELSE <<>>

ThemesInit ==
    /\ FilterIdle /\ DeriveIdle /\ StoreIdle /\ CacheIdle /\ RaceIdle
    /\ rdata \in ThemeFrames
    /\ rates = NoRates
    /\ rpc = "start"

DashboardGauges ==
    /\ rpc = "start"
    /\ IF Empty(rdata)
       THEN /\ rpc' = "warned"
            /\ rates' = NoRates
       ELSE /\ rpc' = "dashboard"
            /\ rates' = [gauges |-> esg_data(rdata)]
    /\ UNCHANGED <<rdata, fvars, dvars, svars, cvars, lvars>>

RenderGauges ==
    /\ rpc = "start"
    /\ rpc' = "gauges"
    /\ rates' = [gauges |-> render_gauges(rdata, GaugeThemes)]
    /\ UNCHANGED <<rdata, fvars, dvars, svars, cvars, lvars>>

ThemesNext == DashboardGauges \/ RenderGauges

SpecThemes == ThemesInit /\ [][ThemesNext]_vars

-----------------------------------------------------------------------------
(* The st.cache_data memos of load_db (ttl 300) and get_interactions (ttl    *)
(* 600), utils.py lines 43 and 136, and the calls that clear them. The store *)
(* machine above reads the file directly: every successful write clears the  *)
(* memo of load_db (line 101), so load_db never answers from an older file.  *)

\* get_interactions(engagement_id), lines 137-148; df is what load_db()
\* returned. The value is the parsed cell: a list, or whatever else the JSON
\* text held
get_interactions(file, now, id) ==
    LET read(df) ==
            LET found == {i \in DOMAIN df.rows : df.rows[i]["engagement_id"] = << id >>}
                cell == df.rows[SetMin(found)]["interactions"]
            IN  IF found = {} THEN [raised |-> FALSE, value |-> EmptyList]
                ELSE IF cell.kind \in {"nan", "bad"}
                THEN [raised |-> FALSE, value |-> EmptyList]
                ELSE [raised |-> FALSE, value |-> cell]
        run(view) ==
            IF view.raised THEN [raised |-> TRUE, value |-> EmptyList]
            ELSE IF Empty(view.df) THEN [raised |-> FALSE, value |-> EmptyList]
            ELSE IF "engagement_id" \notin view.df.cols
            THEN [raised |-> TRUE, value |-> EmptyList]
            ELSE read(view.df)
    IN  CHOOSE out \in {run(view) : view \in {load_db(file, now)}} : TRUE

\* the file a call of load_db() answers from: the memoised one, if any
Seen == IF dbCache.valid THEN dbCache.file ELSE csv

\* the memo of load_db after a call of it: a call that raises memoises nothing
MemoAfterLoad ==
    IF dbCache.valid THEN dbCache
    ELSE IF load_db(csv, clock).raised THEN NoDbCache
    ELSE [valid |-> TRUE, file |-> csv]

\* a read's entry in ret
ReadRet(op, id, raised, value) ==
    [op |-> op, data |-> [engagement_id |-> id], raised |-> raised, ok |-> ~ raised,
     msg |-> "", id |-> <<>>, errors |-> {}, value |-> value]

CacheInit ==
    /\ FilterIdle /\ DeriveIdle /\ RatesIdle /\ RaceIdle
    /\ csv = NoFile /\ before = NoFile
    /\ clock = 0
    /\ uuids = 0
    /\ ret = NoRet
    /\ dbCache = NoDbCache
    /\ ixCache = NoIxCache

\* create_engagement: load_db() at line 151, load_db.clear() in
\* save_engagements_df at line 101
CachedCreate ==
    /\ Len(csv.rows) < MaxRecords
    /\ \E data \in CreatePayloads :
          \E out \in {create_engagement(Seen, data, clock, TRUE)} :
              /\ csv' = IF out.ok THEN out.file ELSE csv
              /\ dbCache' = IF out.ok THEN NoDbCache ELSE MemoAfterLoad
              /\ ret' = RetOf("create", data, out, {})
    /\ before' = csv
    /\ UNCHANGED <<ixCache, clock, uuids, fvars, dvars, rvars, lvars>>

\* log_interaction: load_db() at line 212, load_db.clear() at line 101,
\* get_interactions.clear() at line 246
CachedLog ==
    /\ uuids < MaxLogs
    /\ \E out \in {log_interaction(Seen, ValidLogPayload, clock, uuids + 1, TRUE)} :
          /\ csv' = IF out.ok THEN out.file ELSE csv
          /\ dbCache' = IF out.ok THEN NoDbCache ELSE MemoAfterLoad
          /\ ixCache' = IF out.ok THEN NoIxCache ELSE ixCache
          /\ ret' = RetOf("log", ValidLogPayload, out, {})
    /\ uuids' = uuids + 1
    /\ before' = csv
    /\ UNCHANGED <<clock, fvars, dvars, rvars, lvars>>

\* uploaded frames whose interactions cells hold no list: JSON text of a value
\* that is not a list; text that is not JSON and an empty cell
MalformedFrames ==
    { ImportFrame(<<[ImportRow("Acme", <<1>>) EXCEPT !.interactions =
                        [kind |-> "nonlist", items |-> <<>>]]>>, ImportCols),
      ImportFrame(<<[ImportRow("Acme", <<1>>) EXCEPT !.interactions =
                        [kind |-> "bad", items |-> <<>>]],
                    [ImportRow("Beta", <<2>>) EXCEPT !.interactions =
                        [kind |-> "nan", items |-> <<>>]]>>, ImportCols) }

\* import_csv_data: load_db() at line 109, load_db.clear() at line 101; the
\* memo of get_interactions is not touched
CachedImport ==
    /\ \E new_df \in ImportFrames \cup MalformedFrames :
          \E out \in {import_csv_data(Seen, new_df, clock, TRUE)} :
              /\ csv' = IF out.ok THEN out.file ELSE csv
              /\ dbCache' = IF out.ok THEN NoDbCache ELSE MemoAfterLoad
              /\ ret' = RetOf("import", new_df, out, {})
    /\ before' = csv
    /\ UNCHANGED <<ixCache, clock, uuids, fvars, dvars, rvars, lvars>>

\* a call of load_db()
ReadDb ==
    /\ dbCache' = MemoAfterLoad
    /\ ret' = ReadRet("load_db", 0, load_db(Seen, clock).raised, EmptyList)
    /\ before' = csv
    /\ UNCHANGED <<csv, ixCache, clock, uuids, fvars, dvars, rvars, lvars>>

\* a call of get_interactions(id): the memoised list if there is one, else
\* the list computed from load_db(), which is then memoised
ReadInteractions ==
    /\ \E id \in LogIds :
          IF ixCache[id] # <<>>
          THEN /\ ret' = ReadRet("get_interactions", id, FALSE, ixCache[id][1])
               /\ UNCHANGED cvars
          ELSE \E out \in {get_interactions(Seen, clock, id)} :
                  /\ ret' = ReadRet("get_interactions", id, out.raised, out.value)
                  /\ dbCache' = MemoAfterLoad
                  /\ ixCache' = IF out.raised THEN ixCache
                                 ELSE [ixCache EXCEPT ![id] = << out.value >>]
    /\ before' = csv
    /\ UNCHANGED <<csv, clock, uuids, fvars, dvars, rvars, lvars>>

\* a memo reaches its ttl
Expire ==
    /\ \/ dbCache.valid /\ dbCache' = NoDbCache /\ ixCache' = ixCache
       \/ \E id \in LogIds :
             /\ ixCache[id] # <<>>
             /\ ixCache' = [ixCache EXCEPT ![id] = <<>>]
             /\ dbCache' = dbCache
    /\ UNCHANGED <<svars, fvars, dvars, rvars, lvars>>

CacheNext ==
    \/ CachedCreate \/ CachedLog \/ CachedImport
    \/ ReadDb \/ ReadInteractions
    \/ Expire

SpecCache == CacheInit /\ [][CacheNext]_vars

-----------------------------------------------------------------------------
(* Two sessions in log_interaction at once, utils.py lines 211-251: each     *)
(* loads the records (line 212), works on its own copy of the frame and then *)
(* writes the whole frame back (line 243). Nothing orders the two.           *)

\* the stores the sessions find: one engagement just created; two engagements
\* uploaded, the first with an interaction
RaceFiles ==
    {create_engagement(NoFile, data, 0, TRUE).file : data \in CreatePayloads}
    \cup {import_csv_data(NoFile, new_df, 0, TRUE).file :
              new_df \in {f \in ImportFrames :
                            "interactions" \in f.cols /\ Len(f.rows) = 2}}

\* what the sessions log, all onto engagement 1
RacePayloads ==
    { ValidLogPayload,
      [ValidLogPayload EXCEPT !.interaction_summary = "again"],
      [engagement_id |-> 1, interaction_type |-> "Email",
       interaction_summary |-> "sent", outcome_status |-> "Neutral",
       last_interaction_date |-> TicksPerDay, outcome |-> "Engagement Complete"] }

RaceInit ==
    /\ FilterIdle /\ DeriveIdle /\ RatesIdle /\ CacheIdle
    /\ csv \in RaceFiles
    /\ before = csv
    /\ clock \in {0, TicksPerDay - 1}
    /\ uuids = 0
    /\ ret = NoRet
    /\ callers = [p \in Sessions |-> [pc |-> "start", df |-> NoFile, data |-> NoData]]

\* line 212: the session reads the records
RaceLoad(p) ==
    /\ callers[p].pc = "start"
    /\ \E data \in RacePayloads :
          callers' = [callers EXCEPT ![p] = [pc |-> "loaded", df |-> csv, data |-> data]]
    /\ UNCHANGED <<svars, fvars, dvars, rvars, cvars>>

\* lines 213-251: the session changes its frame and writes it to the file
RaceSave(p) ==
    /\ callers[p].pc = "loaded"
    /\ \E out \in {log_interaction(callers[p].df, callers[p].data, clock,
                                     uuids + 1, TRUE)} :
          /\ csv' = IF out.ok THEN out.file ELSE csv
          /\ ret' = RetOf("log", callers[p].data, out, {})
    /\ callers' = [callers EXCEPT ![p].pc = "done"]
    /\ uuids' = uuids + 1
    /\ before' = csv
    /\ UNCHANGED <<clock, fvars, dvars, rvars, cvars>>

RaceNext == \E p \in Sessions : RaceLoad(p) \/ RaceSave(p)

SpecRace == RaceInit /\ [][RaceNext]_vars

-----------------------------------------------------------------------------
(* Properties of the filter stage *)

FilterDone == fpc \in {"utils", "app"}

\* C1 (filter vacuity): when every dimension of the filter tuple is empty or
\* unset, apply_filters (either variant) returns exactly the frame it was
\* given: the same rows in the same order, none dropped.
C1_FilterVacuity ==
    (FilterDone /\ ffilters = NoFilters) => fresult = fdf

C1_Witness ==
    /\ fpc = "utils" /\ ffilters = NoFilters
    /\ Len(fdf.rows) = MaxRows /\ fresult = fdf

\* what one row has to satisfy, dimension by dimension; a dimension whose
\* column the frame lacks, or that is not supplied, asks nothing of the row
InSupplied(r, cols, col, vals) ==
    (vals # <<>> /\ col \in cols) => \E k \in DOMAIN vals : vals[k] = r[col]

InWindow(r, cols, f, now) ==
    (f.upcoming /\ "next_action_date" \in cols) =>
        /\ r["next_action_date"] # NaT
        /\ r["next_action_date"][1] >= Normalize(now)
        /\ r["next_action_date"][1] < Normalize(now) + (UPCOMING_WINDOW + 1) * TicksPerDay

UtilsSatisfies(r, cols, f, now) ==
    /\ InSupplied(r, cols, "program", f.progs)
    /\ InSupplied(r, cols, "gics_sector", f.sector)
    /\ InSupplied(r, cols, "region", f.region)
    /\ InSupplied(r, cols, "country", f.country)
    /\ InSupplied(r, cols, "outcome", f.outcome)
    /\ InSupplied(r, cols, "sentiment", f.sentiment)
    /\ InSupplied(r, cols, "initial_status", f.status)
    /\ InSupplied(r, cols, "objective", f.objectives)
    /\ (f.theme # "" /\ ThemeColumn(f.theme) \in cols) => r[ThemeColumn(f.theme)] = "Y"
    /\ (Range(f.esg) \cap cols # {}) => \E c \in Range(f.esg) \cap cols : r[c]
    /\ (f.urgent /\ "urgent" \in cols) => r["urgent"]
    /\ InWindow(r, cols, f, now)
    /\ InSupplied(r, cols, "repeat", f.repeat_values)

AppSatisfies(r, cols, f, now) ==
    /\ InSupplied(r, cols, "program", f.progs)
    /\ InSupplied(r, cols, "gics_sector", f.sector)
    /\ InSupplied(r, cols, "region", f.region)
    /\ InSupplied(r, cols, "country", f.country)
    /\ InSupplied(r, cols, "milestone", f.mile)
    /\ InSupplied(r, cols, "milestone_status", f.status)
    /\ InSupplied(r, cols, "company_name", f.companies)
    /\ InSupplied(r, cols, "theme", f.themes)
    /\ (f.esg # <<>> /\ Range(f.esg) \subseteq cols) => \E c \in Range(f.esg) : r[c]
    /\ (f.urgent /\ "urgent" \in cols) => r["urgent"]
    /\ InWindow(r, cols, f, now)
    /\ InSupplied(r, cols, "objective", f.objectives)

\* C2 (filter is the conjunction of the supplied dimensions): the frame
\* returned holds exactly the rows of the frame given that satisfy every
\* supplied dimension, in their order; a categorical dimension is satisfied
\* by exact membership of the stored value in the supplied value list.
C2_FilterConjunction ==
    /\ fpc = "utils" =>
          /\ fresult.cols = fdf.cols
          /\ fresult.rows = SelectSeq(fdf.rows,
                LAMBDA r : UtilsSatisfies(r, fdf.cols, ffilters, fnow))
    /\ fpc = "app" =>
          /\ fresult.cols = fdf.cols
          /\ fresult.rows = SelectSeq(fdf.rows,
                LAMBDA r : AppSatisfies(r, fdf.cols, ffilters, fnow))

\* two dimensions supplied, one row passes both, another fails one of them
C2_Witness ==
    /\ fpc = "utils"
    /\ ffilters.progs = <<"P1", "P2">> /\ ffilters.esg = <<"e">>
    /\ Len(fdf.rows) = 2 /\ Len(fresult.rows) = 1
    /\ \E i \in DOMAIN fdf.rows :
          /\ fdf.rows[i]["program"] = "P2"
          /\ ~ fdf.rows[i]["e"]

OnlyEsg(f) == f = [NoFilters EXCEPT !.esg = f.esg]

\* C3 (ESG OR semantics): with a non-empty ESG selection S whose flag columns
\* the frame has, every row returned has at least one flag of S set, and when
\* ESG is the only supplied dimension the rows returned are exactly the rows
\* with at least one flag of S set (so e-only does not pass {s, g}).
C3_EsgOr ==
    (FilterDone /\ ffilters.esg # <<>> /\ Range(ffilters.esg) \subseteq fdf.cols) =>
        /\ \A i \in DOMAIN fresult.rows :
              \E c \in Range(ffilters.esg) : fresult.rows[i][c]
        /\ OnlyEsg(ffilters) =>
              fresult.rows = SelectSeq(fdf.rows,
                  LAMBDA r : \E c \in Range(ffilters.esg) : r[c])

\* e = true, s = g = false against the selection {s, g}: not returned
C3_Witness ==
    /\ fpc = "utils" /\ OnlyEsg(ffilters) /\ ffilters.esg = <<"s", "g">>
    /\ Len(fdf.rows) = 1
    /\ fdf.rows[1]["e"] /\ ~ fdf.rows[1]["s"] /\ ~ fdf.rows[1]["g"]
    /\ fresult.rows = <<>>

\* the call made, as a function of the frame and the filter tuple
Filtered(d, f) ==
    IF fpc = "utils" THEN apply_filters(d, f, fnow) ELSE app_apply_filters(d, f, fnow)

\* the columns each dimension of the variant called refers to
DimColumns(f) ==
    IF fpc = "utils"
    THEN [progs |-> {"program"}, sector |-> {"gics_sector"}, region |-> {"region"},
          country |-> {"country"}, outcome |-> {"outcome"}, sentiment |-> {"sentiment"},
          status |-> {"initial_status"}, objectives |-> {"objective"},
          theme |-> {ThemeColumn(f.theme)}, esg |-> Range(f.esg),
          urgent |-> {"urgent"}, upcoming |-> {"next_action_date"},
          repeat_values |-> {"repeat"}]
    ELSE [progs |-> {"program"}, sector |-> {"gics_sector"}, region |-> {"region"},
          country |-> {"country"}, mile |-> {"milestone"}, status |-> {"milestone_status"},
          companies |-> {"company_name"}, themes |-> {"theme"}, esg |-> Range(f.esg),
          urgent |-> {"urgent"}, upcoming |-> {"next_action_date"},
          objectives |-> {"objective"}]

\* the supplied dimensions that refer to a column the frame does not have
MissingDims(d, f) ==
    {dim \in DOMAIN DimColumns(f) :
        f[dim] # NoFilters[dim] /\ ~ (DimColumns(f)[dim] \subseteq d.cols)}

\* C11 as stated: a supplied dimension that refers to a column the frame does
\* not have is no constraint: the call returns what it returns with that
\* dimension left empty.
C11_MissingColumnNoConstraint ==
    FilterDone =>
        \A dim \in MissingDims(fdf, ffilters) :
            fresult = Filtered(fdf, [ffilters EXCEPT ![dim] = NoFilters[dim]])

\* C11 (amended): a supplied dimension whose column the frame lacks (a
\* categorical column, the theme column, urgent, next_action_date, repeat) is
\* no constraint and nothing is raised.  The ESG dimension is no constraint in
\* app.apply_filters as soon as one selected flag column is missing; in
\* utils.apply_filters the selected flags whose column is missing are ignored
\* and one of the selected flags that are present is still required, so it is
\* no constraint only when none of the selected flag columns is present.
C11_MissingColumnIgnored ==
    FilterDone =>
        /\ \A dim \in MissingDims(fdf, ffilters) \ {"esg"} :
              fresult = Filtered(fdf, [ffilters EXCEPT ![dim] = NoFilters[dim]])
        /\ (fpc = "app" /\ "esg" \in MissingDims(fdf, ffilters)) =>
              fresult = Filtered(fdf, [ffilters EXCEPT !.esg = <<>>])
        /\ fpc = "utils" =>
              fresult = Filtered(fdf, [ffilters EXCEPT !.esg =
                                         SelectSeq(ffilters.esg, LAMBDA c : c \in fdf.cols)])

\* programs are selected on a frame without a program column and all its
\* rows come back
C11_Witness ==
    /\ fpc = "utils"
    /\ "program" \notin fdf.cols /\ ffilters.progs = <<"P1">>
    /\ Len(fdf.rows) = MaxRows /\ fresult = fdf

\* C19: applying the ESG dimension with no flag selected returns the same
\* rows as applying it with all three flags selected, the other dimensions
\* being equal.
C19_EsgNoneIsAll ==
    (FilterDone /\ ffilters.esg = <<>>) =>
        fresult = Filtered(fdf, [ffilters EXCEPT !.esg = <<"e", "s", "g">>])

RECURSIVE IsSubSeq(_, _)
IsSubSeq(s, t) ==
    IF s = <<>> THEN TRUE
    ELSE IF t = <<>> THEN FALSE
    ELSE IF Head(s) = Head(t) THEN IsSubSeq(Tail(s), Tail(t))
    ELSE IsSubSeq(s, Tail(t))

\* C20 (filter monotonicity): every row returned is a row of the frame given,
\* its cells unchanged, no row returned more often than the frame holds it and
\* the order kept; the empty frame filters to the empty frame for every filter
\* tuple, and an empty result is returned like any other.
C20_FilterMonotone ==
    FilterDone =>
        /\ fresult.cols = fdf.cols
        /\ IsSubSeq(fresult.rows, fdf.rows)
        /\ fdf.rows = <<>> => fresult = fdf

\* two rows go in, one of them comes out; and nothing comes out of a full frame
C20_Witness ==
    /\ FilterDone
    /\ Len(fdf.rows) = MaxRows
    /\ Len(fresult.rows) = 1
    /\ fresult.rows[1] = fdf.rows[Len(fdf.rows)]
    /\ fdf.rows[1] # fdf.rows[Len(fdf.rows)]

\* the calendar day an instant falls on
DayOf(t) == t \div TicksPerDay

\* the record's next action falls on a day from today to today + 30
OnUpcomingDay(r, now) ==
    /\ r["next_action_date"] # NaT
    /\ DayOf(r["next_action_date"][1]) - DayOf(now) \in 0..30

OnlyUpcoming(f) == f = [NoFilters EXCEPT !.upcoming = TRUE]

\* C24: with the upcoming flag set (and a next_action_date column), either
\* apply_filters returns only records whose next_action_date falls on a
\* calendar day from today to today + 30 inclusive, and with no other
\* dimension supplied exactly those records: records without a date, with a
\* date before today or after today + 30 are excluded.
C24_UpcomingWindow ==
    (FilterDone /\ ffilters.upcoming /\ "next_action_date" \in fdf.cols) =>
        /\ \A i \in DOMAIN fresult.rows : OnUpcomingDay(fresult.rows[i], fnow)
        /\ OnlyUpcoming(ffilters) =>
              fresult.rows = SelectSeq(fdf.rows, LAMBDA r : OnUpcomingDay(r, fnow))

\* late in the day, a record due in the last instant of day today + 30 is kept
C24_Witness ==
    /\ FilterDone /\ OnlyUpcoming(ffilters)
    /\ "next_action_date" \in fdf.cols
    /\ fnow # Normalize(fnow)
    /\ Len(fresult.rows) = 1
    /\ fresult.rows[1]["next_action_date"] = << (UPCOMING_WINDOW + 1) * TicksPerDay - 1 >>

\* late in the day, a record due at midnight of day today + 31 is dropped
C24_WitnessDropped ==
    /\ FilterDone /\ OnlyUpcoming(ffilters)
    /\ "next_action_date" \in fdf.cols
    /\ fnow # Normalize(fnow)
    /\ Len(fdf.rows) = 1 /\ fresult.rows = <<>>
    /\ fdf.rows[1]["next_action_date"] = << (UPCOMING_WINDOW + 1) * TicksPerDay >>

\* the labels in a record's theme label, as load_db derives it
LabelsOf(row) == Range(ThemeLabels(row, ThemeMapping))

\* the single-select theme filter alone has been applied by utils.apply_filters
\* to a frame that has the theme's column, as every frame of load_db has
OnlyTheme ==
    /\ fpc = "utils" /\ ffilters.theme # ""
    /\ ffilters = [NoFilters EXCEPT !.theme = ffilters.theme]
    /\ ThemeColumn(ffilters.theme) \in fdf.cols

\* C29: a record passes the single-select theme filter for a theme exactly
\* when the theme is in the record's derived theme label.
C29_ThemeFilterMatchesLabel ==
    OnlyTheme =>
        fresult.rows = SelectSeq(fdf.rows, LAMBDA r : ffilters.theme \in LabelsOf(r))

\* what passes the filter has the theme in its label
C29_PassedHaveLabel ==
    OnlyTheme =>
        \A i \in DOMAIN fresult.rows : ffilters.theme \in LabelsOf(fresult.rows[i])

-----------------------------------------------------------------------------
(* Properties of the record store *)

\* the rows of a stored file that carry the identifier
RowsWithId(file, id) ==
    IF "engagement_id" \in file.cols
    THEN {i \in DOMAIN file.rows : file.rows[i]["engagement_id"] = <<id>>}
    ELSE {}

\* the interaction sequence stored for a row
StoredInteractions(file, i) ==
    LET cell == file.rows[i]["interactions"]
    IN  IF cell.kind = "list" THEN cell.items ELSE <<>>

LogSucceeded == ret.op \in {"log", "log_form"} /\ ret.ok

\* the payload log_interaction was called with
LoggedPayload == IF ret.op = "log" THEN ret.data ELSE FormPayload(ret.data, clock)

LoggedRow == SetMin(RowsWithId(before, LoggedPayload["engagement_id"]))

NewEntry == StoredInteractions(csv, LoggedRow)[Len(StoredInteractions(csv, LoggedRow))]

\* the stored sequence is the previous one and one more entry at its end
AppendedAtEnd ==
    /\ Len(csv.rows) = Len(before.rows)
    /\ Len(StoredInteractions(csv, LoggedRow)) = Len(StoredInteractions(before, LoggedRow)) + 1
    /\ SubSeq(StoredInteractions(csv, LoggedRow), 1, Len(StoredInteractions(before, LoggedRow)))
          = StoredInteractions(before, LoggedRow)

SuppliesAll(data) ==
    {"interaction_type", "interaction_summary", "outcome_status", "date"} \subseteq DOMAIN data

\* C4 as stated: after a successful log_interaction the engagement's stored
\* sequence is the previous one with one entry appended at the end, and the
\* entry's type, summary, date and outcome equal those of the payload.
C4_EntryEqualsPayload ==
    (LogSucceeded /\ SuppliesAll(LoggedPayload)) =>
        /\ AppendedAtEnd
        /\ NewEntry.interaction_type = LoggedPayload["interaction_type"]
        /\ NewEntry.interaction_summary = LoggedPayload["interaction_summary"]
        /\ NewEntry.interaction_date = LoggedPayload["date"]
        /\ NewEntry.outcome_status = LoggedPayload["outcome_status"]

\* C4 (amended): after a successful log_interaction on an existing engagement
\* its stored interaction sequence is the previous sequence (empty when the
\* stored cell was empty or not valid JSON) with exactly one entry appended at
\* the end; the entry's type and outcome are the payload's ("N/A" when it has
\* none), its summary is the payload's summary with the surrounding whitespace
\* stripped, and its date is the calendar day of the payload's date (of its
\* last_interaction_date when it has no date).
C4_AppendOneStripped ==
    LogSucceeded =>
        /\ AppendedAtEnd
        /\ NewEntry.interaction_type = Get(LoggedPayload, "interaction_type", "N/A")
        /\ NewEntry.interaction_summary =
              Strip(Get(LoggedPayload, "interaction_summary", "No summary provided"))
        /\ NewEntry.interaction_date =
              Normalize(IF Has(LoggedPayload, "date") THEN LoggedPayload["date"]
                        ELSE LoggedPayload["last_interaction_date"])
        /\ NewEntry.outcome_status = Get(LoggedPayload, "outcome_status", "N/A")

\* a padded summary and a date with a time of day are logged onto a sequence
\* that already holds an interaction
C4_Witness ==
    /\ LogSucceeded /\ ret.op = "log"
    /\ SuppliesAll(ret.data)
    /\ ret.data["interaction_summary"] = " met "
    /\ ret.data["date"] # Normalize(ret.data["date"])
    /\ Len(StoredInteractions(before, LoggedRow)) = 1
    /\ Len(StoredInteractions(csv, LoggedRow)) = 2

FormBlank(form) ==
    \/ form.interaction_type = ""
    \/ form.interaction_summary \in {"", "  "}
    \/ form.outcome_status = ""

SameNameRows(file, name) ==
    IF "company_name" \in file.cols
    THEN {i \in DOMAIN file.rows : Lower(file.rows[i]["company_name"]) = Lower(name)}
    ELSE {}

\* C6: create_engagement with a company name equal, ignoring case, to the
\* name of a stored record does not succeed and leaves the store as it was;
\* whenever the store can be loaded it returns the duplicate failure.
C6_DuplicateRejected ==
    (ret.op = "create" /\ SameNameRows(before, ret.data["company_name"]) # {}) =>
        /\ ~ ret.ok
        /\ csv = before
        /\ Len(csv.rows) = Len(before.rows)
        /\ ~ ret.raised => ret.msg = "already exists"

\* "ACME" is refused because "Acme" is stored
C6_Witness ==
    /\ ret.op = "create" /\ ret.msg = "already exists"
    /\ ret.data["company_name"] = "ACME"
    /\ \E i \in DOMAIN before.rows : before.rows[i]["company_name"] = "Acme"
    /\ csv = before

\* C7: in every reachable store no two records have company names that are
\* equal ignoring case.
C7_NamesUnique ==
    \A i, j \in DOMAIN csv.rows :
        (i # j /\ "company_name" \in csv.cols) =>
            Lower(csv.rows[i]["company_name"]) # Lower(csv.rows[j]["company_name"])

StoredIds(file) ==
    IF "engagement_id" \in file.cols
    THEN {file.rows[i]["engagement_id"] : i \in DOMAIN file.rows}
    ELSE {}

\* C8: create_engagement gives the new record a positive integer identifier
\* greater than every stored one (1 for an empty store), no two records of a
\* reachable store share an identifier, and create_engagement and
\* log_interaction leave the identifiers of the stored records as they were.
C8_IdsUniqueStable ==
    /\ (ret.op = "create" /\ ret.ok) =>
          /\ ret.id # <<>> /\ ret.id[1] >= 1
          /\ \A v \in StoredIds(before) : v # <<>> /\ v[1] < ret.id[1]
          /\ before.rows = <<>> => ret.id = <<1>>
    /\ \A i, j \in DOMAIN csv.rows :
          (i # j /\ "engagement_id" \in csv.cols) =>
              csv.rows[i]["engagement_id"] # csv.rows[j]["engagement_id"]
    /\ (ret.op \in {"create", "log", "log_form"} /\ "engagement_id" \in before.cols) =>
          \A i \in DOMAIN before.rows :
              csv.rows[i]["engagement_id"] = before.rows[i]["engagement_id"]

\* C12: log_interaction with an identifier that no stored record carries,
\* the store without any record included, returns the failure 'Engagement not
\* found.' without raising and writes nothing.
C12_UnknownIdNotFound ==
    (ret.op = "log" /\ RowsWithId(before, ret.data["engagement_id"]) = {}) =>
        /\ ~ ret.raised
        /\ ~ ret.ok /\ ret.msg = "not found"
        /\ csv = before

WriteOps == {"create", "create_form", "log", "log_form"}

\* C13: when the write is refused inside create_engagement or log_interaction
\* the operation returns failure with the persistence message, which is
\* neither the duplicate nor the not-found message, and the effect is all or
\* nothing: a failed operation of either kind leaves the persisted store, and
\* so what the next load_db returns, as before the call.
C13_FailedWriteChangesNothing ==
    (ret.op \in WriteOps) =>
        /\ ~ ret.ok =>
              /\ csv = before
              /\ load_db(csv, clock) = load_db(before, clock)
        /\ ret.msg = "cannot save" => (~ ret.ok /\ ~ ret.raised)
        /\ ret.ok => ret.msg \in {"created", "logged"}

\* the write of a log onto a stored engagement is refused
C13_Witness ==
    /\ ret.op = "log" /\ ret.msg = "cannot save"
    /\ RowsWithId(before, ret.data["engagement_id"]) # {}
    /\ Len(before.rows) = 2
    /\ csv = before

IsPrefix(s, t) == Len(s) <= Len(t) /\ SubSeq(t, 1, Len(s)) = s

\* every record that had interactions is still there, in its place, with
\* the interactions it had as the first interactions it has
InteractionsKept ==
    \A i \in DOMAIN before.rows :
        StoredInteractions(before, i) # <<>> =>
            /\ i \in DOMAIN csv.rows
            /\ csv.rows[i]["engagement_id"] = before.rows[i]["engagement_id"]
            /\ IsPrefix(StoredInteractions(before, i), StoredInteractions(csv, i))

\* C15 as stated: across any sequence of operations an interaction once
\* appended stays in its engagement's stored sequence, its fields and its
\* place among the other entries unchanged.
C15_InteractionsKeptByAll ==
    ret.op # "none" => InteractionsKept

\* C15 (amended): across any sequence of create_engagement and
\* log_interaction operations an interaction once appended stays in its
\* engagement's stored sequence, its fields and its place among the other
\* entries unchanged; import_csv_data replaces the stored records wholesale
\* and their interactions with them.
C15_InteractionsKeptByCreateLog ==
    (ret.op \in WriteOps) => InteractionsKept

\* the form logs onto an engagement that has an interaction, which is kept
C15_Witness ==
    /\ ret.op = "log_form" /\ ret.ok
    /\ \E i \in DOMAIN before.rows :
          /\ Len(StoredInteractions(before, i)) = 1
          /\ Len(StoredInteractions(csv, i)) = 2
          /\ StoredInteractions(csv, i)[1] = StoredInteractions(before, i)[1]

\* C18: the derived view fields are never stored back: the persisted records
\* hold no derived field.
C18_NoDerivedStored == csv.cols \cap DerivedCols = {}

CreateFormBlank(form) ==
    \/ form.company_name \in {"", "  "}
    \/ \E k \in {"gics_sector", "program", "country", "region"} : form[k] = ""

StatusFields ==
    {"milestone", "escalation_level", "outcome", "last_interaction_date",
     "next_action_date"}

\* the payload holds a value for the field that is neither None nor ""
Supplied(data, k) == k \in DOMAIN data /\ (k \notin DateKeys => data[k] # "")

\* the payload's value as a stored cell
CellOfValue(data, k) == IF k \in DateKeys THEN << data[k] >> ELSE data[k]

\* C22: a successful log_interaction overwrites each current-status field
\* (milestone, escalation level, outcome, last-interaction date, next-action
\* date) of the engagement with the payload's value when the payload supplies
\* a non-empty value for it, and leaves the field's prior value unchanged when
\* the payload omits it or supplies an empty string.
C22_StatusOverwritten ==
    LogSucceeded =>
        \A k \in StatusFields :
            IF Supplied(LoggedPayload, k)
            THEN /\ k \in csv.cols
                 /\ csv.rows[LoggedRow][k] = CellOfValue(LoggedPayload, k)
            ELSE k \in before.cols =>
                    /\ k \in csv.cols
                    /\ csv.rows[LoggedRow][k] = before.rows[LoggedRow][k]

\* the same for the fields that are columns of the stored records
C22_StoredStatusOverwritten ==
    LogSucceeded =>
        \A k \in StatusFields \cap before.cols :
            /\ k \in csv.cols
            /\ csv.rows[LoggedRow][k] =
                  IF Supplied(LoggedPayload, k) THEN CellOfValue(LoggedPayload, k)
                  ELSE before.rows[LoggedRow][k]

\* the stored records that do not carry the identifier the call was made for
OtherRecords ==
    DOMAIN before.rows \ RowsWithId(before, LoggedPayload["engagement_id"])

\* C30: log_interaction changes only the engagement it is called for: whether
\* it succeeds or fails, the store holds as many records as before and every
\* record with another identifier has its raw fields, its interactions
\* among them, as before.
C30_LogTouchesOnlyTarget ==
    ret.op \in {"log", "log_form"} =>
        /\ Len(csv.rows) = Len(before.rows)
        /\ \A i \in OtherRecords :
               \A c \in RawCols \cap before.cols :
                   c \in csv.cols /\ csv.rows[i][c] = before.rows[i][c]

\* what holds: the records with another identifier have their raw fields
\* as before when these are read as load_db reads them
C30_LogTouchesOnlyTargetAsRead ==
    ret.op \in {"log", "log_form"} =>
        /\ Len(csv.rows) = Len(before.rows)
        /\ \A i \in OtherRecords :
               \A c \in RawCols \cap before.cols :
                   /\ c \in csv.cols
                   /\ ReadFrame(csv).rows[i][c] = ReadFrame(before).rows[i][c]

ImportSucceeded == ret.op = "import" /\ ret.ok

\* the archive written holds the records that were stored before the call
PriorArchived ==
    before.exists /\ before.rows # <<>> =>
        /\ ret.archive # <<>>
        /\ Len(ret.archive[1].rows) = Len(before.rows)
        /\ \A i \in DOMAIN before.rows :
               \A c \in before.cols \cap {"engagement_id", "company_name", "interactions"} :
                   ret.archive[1].rows[i][c] = before.rows[i][c]

\* C27: after a successful bulk import every stored record has an identifier,
\* the records that came without one being numbered sequentially, and the
\* prior records, if there were any, have been archived.
C27_ImportIdentifies ==
    ImportSucceeded =>
        /\ \A i \in DOMAIN csv.rows : csv.rows[i]["engagement_id"] # <<>>
        /\ "engagement_id" \notin ret.data.cols =>
               \A i \in DOMAIN csv.rows : csv.rows[i]["engagement_id"] = <<i>>
        /\ PriorArchived

\* the same of the uploads that have no engagement_id column
C27_ImportNumbersWithoutColumn ==
    ImportSucceeded =>
        /\ "engagement_id" \notin ret.data.cols =>
               \A i \in DOMAIN csv.rows : csv.rows[i]["engagement_id"] = <<i>>
        /\ PriorArchived

-----------------------------------------------------------------------------
(* Properties of two sessions logging at once *)

BothDone == \A p \in Sessions : callers[p].pc = "done"

\* the interactions of engagement 1 in a file
LoggedOn(file) == StoredInteractions(file, SetMin(RowsWithId(file, 1)))

\* both sessions loaded the records before either saved
Interleaved == callers[1].df = callers[2].df

\* the session that loaded first
FirstLoader ==
    CHOOSE p \in Sessions :
        \A q \in Sessions : Len(LoggedOn(callers[p].df)) <= Len(LoggedOn(callers[q].df))

\* C23: the merges of two log_interaction calls on one engagement are not
\* coordinated. When both load the records before either saves, the later
\* save overwrites the earlier one: the stored sequence is the loaded one with
\* the later saver's entry alone added, the other entry is lost. When the two
\* calls run one after the other, the stored sequence is the first loaded one
\* with both entries added.
C23_LostUpdate ==
    BothDone =>
        /\ ret.ok
        /\ IF Interleaved
           THEN /\ Len(LoggedOn(csv)) = Len(LoggedOn(callers[1].df)) + 1
                /\ IsPrefix(LoggedOn(callers[1].df), LoggedOn(csv))
                /\ LoggedOn(csv)[Len(LoggedOn(csv))].interaction_id = uuids
           ELSE /\ Len(LoggedOn(csv)) = Len(LoggedOn(callers[FirstLoader].df)) + 2
                /\ IsPrefix(LoggedOn(callers[FirstLoader].df), LoggedOn(csv))
                /\ LoggedOn(csv)[Len(LoggedOn(csv)) - 1].interaction_id = uuids - 1
                /\ LoggedOn(csv)[Len(LoggedOn(csv))].interaction_id = uuids

\* both sessions loaded a record with one interaction, both saved, and the
\* record holds two interactions
C23_Witness ==
    /\ BothDone /\ Interleaved
    /\ Len(LoggedOn(callers[1].df)) = 1
    /\ Len(LoggedOn(csv)) = 2
    /\ callers[1].data # callers[2].data

-----------------------------------------------------------------------------
(* Properties of the cached views *)

\* C14 (read-your-writes): every successful write through create_engagement,
\* log_interaction or import_csv_data invalidates the cached views: load_db
\* never answers from a file other than the persisted one, and a call of
\* get_interactions(id) returns the interaction sequence persisted for id at
\* the time of the call, never a value memoised before a write.
C14_ReadYourWrites ==
    /\ dbCache.valid => dbCache.file = csv
    /\ (ret.op = "get_interactions" /\ ~ ret.raised) =>
           ret.value = get_interactions(csv, clock, ret.data.engagement_id).value

\* the part of C14 that the code keeps: load_db reads the persisted file
C14_LoadDbFresh == dbCache.valid => dbCache.file = csv

\* the stored interactions cell of the first record with the identifier
CellOf(file, id) == file.rows[SetMin(RowsWithId(file, id))]["interactions"]

\* C21: log_interaction and get_interactions treat a stored interaction
\* sequence that is missing, empty or malformed (any stored value that is not a
\* well-formed list) as the empty sequence and never raise because of it: a log
\* onto such a record succeeds with the new entry as its only interaction, and
\* get_interactions returns a list.
C21_MalformedIsEmpty ==
    /\ ( /\ ret.op = "log"
         /\ ~ load_db(before, clock).raised
         /\ RowsWithId(before, ret.data.engagement_id) # {}
         /\ CellOf(before, ret.data.engagement_id).kind # "list" ) =>
            /\ ~ ret.raised
            /\ ret.ok => Len(CellOf(csv, ret.data.engagement_id).items) = 1
    /\ ( /\ ret.op = "get_interactions"
         /\ ~ load_db(csv, clock).raised ) =>
            /\ ~ ret.raised
            /\ ret.value.kind = "list"

-----------------------------------------------------------------------------
(* Properties of the dashboard rates *)

SuccessVocabulary == {"Success", "Full Disclosure", "Partial Disclosure", "Verified"}

CancelledSpellings == {"Cancelled", "CANCELLED", "cancelled"}

\* how many rows of the frame hold a milestone of the given set
RowsIn(d, S) ==
    IF "milestone" \in d.cols
    THEN Cardinality({i \in DOMAIN d.rows : d.rows[i].milestone \in S})
    ELSE 0

\* rate is an integer nearest to 100 * count / total
Nearest(rate, count, total) ==
    /\ 2 * (rate * total - 100 * count) <= total
    /\ 2 * (100 * count - rate * total) <= total

\* C17: the success rate is 100 times the number of records whose milestone is
\* in the success vocabulary over the total, rounded to the nearest integer,
\* and the fail rate the same for the cancelled records; for no records both
\* expressions give 0 without dividing; for 1 success and 1 cancelled among 3
\* records both rates are 33.
C17_RatesRounded ==
    LET total == Len(rdata.rows)
        succ == RowsIn(rdata, SuccessVocabulary)
        canc == RowsIn(rdata, CancelledSpellings)
    IN  /\ total = 0 => success_rate(rdata) = 0 /\ fail_rate(rdata) = 0
        /\ rpc = "shown" =>
              /\ total > 0
              /\ Nearest(rates.success_rate, succ, total)
              /\ Nearest(rates.fail_rate, canc, total)
              /\ (total = 3 /\ succ = 1 /\ canc = 1) =>
                    rates.success_rate = 33 /\ rates.fail_rate = 33

\* the rates were shown for 2 successes and 1 cancelled among 3 records
C17_Witness ==
    /\ rpc = "shown"
    /\ Len(rdata.rows) = 3
    /\ rates.success_count = 2 /\ rates.success_rate = 67
    /\ rates.failed_count = 1 /\ rates.fail_rate = 33

-----------------------------------------------------------------------------
(* Properties of the thematic distribution *)

\* the records flagged "Y" for the k-th theme (Climate, Water, Forests, Other),
\* in the theme's column as the frame names it
Flagged(d, k) ==
    LET col == IF "climate_change" \in d.cols THEN theme_cols[k] ELSE theme_columns[k]
    IN  Cardinality({i \in DOMAIN d.rows : d.rows[i][col] = "Y"})

AllFlags(d) == Flagged(d, 1) + Flagged(d, 2) + Flagged(d, 3) + Flagged(d, 4)

\* each gauge shows the theme's count and its share of all theme counts
SharesShown(gauges, d) ==
    \A k \in DOMAIN gauges :
        /\ gauges[k].count = Flagged(d, k)
        /\ IF AllFlags(d) = 0 THEN gauges[k].pct = 0
           ELSE Nearest(gauges[k].pct, Flagged(d, k), AllFlags(d))

\* C26 (thematic distribution): the count reported for each theme is the
\* number of records flagged "Y" for it, and its percentage is that count's
\* share of the sum of all theme counts, a record with two themes counting
\* twice in the sum; every percentage is 0 when no record has a theme.
C26_ThemeShares ==
    rpc \in {"dashboard", "gauges"} => SharesShown(rates.gauges, rdata)

\* each of the two reports count and share of the frames that name the theme
\* columns as it reads them
C26_SharesOfOwnColumns ==
    /\ rpc = "gauges" /\ "climate_change" \in rdata.cols
           => SharesShown(rates.gauges, rdata)
    /\ rpc = "dashboard" /\ "Climate Change" \in rdata.cols
           => SharesShown(rates.gauges, rdata)

-----------------------------------------------------------------------------
(* Properties of the calendar *)

\* the rows of the view that have a next_action_date, in row order
RECURSIVE DatedFrom(_, _)
DatedFrom(d, i) ==
    IF i > Len(d.rows) THEN <<>>
    ELSE (IF d.rows[i]["next_action_date"] # NaT THEN <<i>> ELSE <<>>) \o DatedFrom(d, i + 1)

CalendarShown == devents.called /\ ~ Empty(dview.df)

\* C28: a record's calendar event is classed 'event-urgent' exactly when
\* load_db, at the same instant, marks the record urgent; a record without
\* an event is not urgent.
C28_CalendarUrgency ==
    CalendarShown =>
        LET dated == DatedFrom(dview.df, 1)
        IN  /\ Len(devents.events) = Len(dated)
            /\ \A k \in DOMAIN dated :
                   (devents.events[k].cls = "event-urgent") <=> dview.df.rows[dated[k]]["urgent"]
            /\ \A i \in DOMAIN dview.df.rows :
                   dview.df.rows[i]["next_action_date"] = NaT => ~ dview.df.rows[i]["urgent"]

\* the two agree at midnight, when the instant is its own calendar day
C28_CalendarUrgencyAtMidnight ==
    dnow = Normalize(dnow) => C28_CalendarUrgency

-----------------------------------------------------------------------------
(* Properties of the derivation stage *)

Derived == dpc = "loaded" /\ ~ dview.raised

\* C9 (urgency derivation): whenever load_db yields a view, each row's
\* days_to_next_action is the whole number of days from now to its
\* next_action_date, rounded down, and urgent holds exactly when that number
\* is at most URGENT_DAYS; a row with no next_action_date has a null
\* days_to_next_action and urgent = false.
C9_UrgencyDerivation ==
    Derived =>
        \A i \in DOMAIN dview.df.rows :
            LET r == dview.df.rows[i]
                nad == r["next_action_date"]
                days == r["days_to_next_action"]
            IN  /\ nad = NaT => (days = <<>> /\ r["urgent"] = FALSE)
                /\ nad # NaT =>
                      /\ days # <<>>
                      /\ days[1] * TicksPerDay <= nad[1] - dnow
                      /\ nad[1] - dnow < (days[1] + 1) * TicksPerDay
                      /\ r["urgent"] <=> (days[1] <= URGENT_DAYS)

\* one row without a date (not urgent), one due today (urgent)
C9_Witness ==
    /\ Derived /\ Len(dview.df.rows) = 2
    /\ \E i, j \in DOMAIN dview.df.rows :
          /\ dview.df.rows[i]["next_action_date"] = NaT
          /\ dview.df.rows[i]["days_to_next_action"] = <<>>
          /\ ~ dview.df.rows[i]["urgent"]
          /\ dview.df.rows[j]["next_action_date"] # NaT
          /\ dview.df.rows[j]["urgent"]

\* the complete vocabulary in the spellings the stored outcomes take
CompleteSpellings == {"Engagement Complete", "Response Received", "RESPONSE RECEIVED"}

\* C25 (overdue derivation): whenever load_db yields a view, each row's
\* is_complete holds exactly when its outcome, case ignored, is in the
\* complete vocabulary, and its overdue holds exactly when its
\* next_action_date lies before now and it is not complete; overdue is false
\* for a row without next_action_date, and no row is both overdue and complete.
C25_OverdueDerivation ==
    Derived =>
        \A i \in DOMAIN dview.df.rows :
            LET r == dview.df.rows[i]
                nad == r["next_action_date"]
            IN  /\ r["is_complete"] <=> (dfile.rows[i]["outcome"] \in CompleteSpellings)
                /\ r["overdue"] <=> (nad # NaT /\ nad[1] < dnow /\ ~ r["is_complete"])
                /\ nad = NaT => ~ r["overdue"]
                /\ ~ (r["overdue"] /\ r["is_complete"])

\* a row due earlier today and not complete is overdue
C25_Witness ==
    /\ Derived /\ Len(dview.df.rows) = 1
    /\ dview.df.rows[1]["next_action_date"] = <<Normalize(dnow)>>
    /\ dnow > Normalize(dnow)
    /\ dview.df.rows[1]["overdue"]

\* a row due yesterday whose outcome is complete in capitals is not overdue
C25_WitnessComplete ==
    /\ Derived /\ Len(dview.df.rows) = 1
    /\ dview.df.rows[1]["next_action_date"] = <<0 - 1>>
    /\ dview.df.rows[1]["outcome"] = "RESPONSE RECEIVED"
    /\ dview.df.rows[1]["is_complete"] /\ ~ dview.df.rows[1]["overdue"]

OptionalInputs == {"next_action_date", "target_date", "outcome"}

\* C10 (missing optional columns): with next_action_date, target_date or
\* outcome absent from a non-empty CSV, load_db does not raise and every row
\* gets the default of each derived field that reads the absent column
\* (days_to_next_action null; is_complete, on_time, late, overdue, urgent false).
\* Stated for CSVs whose outcome column, when there, holds some text.
C10_MissingColumnsTolerated ==
    (dpc = "loaded" /\ dfile.exists /\ dfile.rows # <<>>
        /\ ~ (OptionalInputs \subseteq dfile.cols)
        /\ ("outcome" \in dfile.cols =>
               \E i \in DOMAIN dfile.rows : dfile.rows[i]["outcome"] # "")) =>
        /\ ~ dview.raised
        /\ \A i \in DOMAIN dview.df.rows :
              LET r == dview.df.rows[i]
              IN  /\ "next_action_date" \notin dfile.cols =>
                        /\ r["days_to_next_action"] = <<>>
                        /\ ~ r["overdue"] /\ ~ r["urgent"]
                  /\ "target_date" \notin dfile.cols =>
                        ~ r["on_time"] /\ ~ r["late"]
                  /\ "outcome" \notin dfile.cols =>
                        ~ r["is_complete"] /\ ~ r["on_time"] /\ ~ r["late"]

====
